---------------------------- MODULE Spec2Model ----------------------------
(***************************************************************************)
(* A model of src/expr2/exprfilter.cpp: the postfix expression IR, the     *)
(* JIT compiler's compile-time stack walk (Compiler::compile and           *)
(* Compiler::buildOneIter), the scalar interpreter (interpret), the        *)
(* sorting-network lowering of SORT, relative pixel access, the store of   *)
(* the result, and the process-wide routine cache.                         *)
(***************************************************************************)
EXTENDS Integers, Sequences, FiniteSets, TLC

VARIABLES
    engine,      \* "jit": Compiler::compile; "interp": interpret
    ops,         \* ctx.ops / the ops argument of interpret
    numInputs,   \* ctx.numInputs
    forceFloat,  \* ctx.forceFloat(), i.e. !(optMask & flagUseInteger)
    pixelThrows, \* interpret: whether the pixelGet closure throws
    phase,       \* where the evaluation is
    i,           \* the number of ops already walked (the loop index)
    stack,       \* the value stack (compile-time Values / floats)
    under,       \* interpret: elements popped below the vector's begin
    variables,   \* State::variables of the JIT
    vars,        \* interpret: std::map<std::string, float> vars
    status,      \* "running", "ok", or how the evaluation ended
    trace,       \* history: per executed op, what it consumed and pushed
    viIndexed,   \* history: clip indices used to index ctx.vi / state.wptrs
    propAccess,  \* Compiled::propAccess: the (clip, name) pairs by their index
    \* one call of the compiled routine with a single relative MEM_LOAD
    width,       \* the width argument
    height,      \* the height argument
    load,        \* the MEM_LOAD op: its x, y and bc
    stateY,      \* state.y, the outer loop variable
    stateX,      \* state.x, the inner loop variable
    lanes,       \* history: the source pixel each lane got in the last iteration
    \* the store of one result vector
    outBits,     \* ctx.vo->format->bitsPerSample (integer output)
    res,         \* the Value left on the stack, for one lane
    stored,      \* the lane's sample in the output plane
    \* filter creations and the routine cache
    exprCache,   \* the static unordered_map: key -> Compiled
    pc,          \* per thread: where its exprCreate is
    req,         \* per thread: the request it serves
    cached,      \* per thread: ctx.cached
    built,       \* per thread: the routine its compile() acquired
    raced,       \* the threads whose current map operation overlapped an insert
    routines,    \* the number of routines compiled so far
    budget,      \* the number of filter creations still to come
    returned,    \* history: per finished compile(), request and routine returned
    \* one expression of literals, a pixel and + - *, run by both engines
    arithOps,    \* the op sequence
    arithI,      \* the number of ops both engines have done
    jitVals,     \* the JIT's stack: per Value its tag and the lane's number
    fltVals,     \* the interpreter's stack of floats
    \* one token on its way into an op sequence
    token,       \* the token, as the parts the regular expressions find in it
    extended,    \* decodeToken's extended argument
    mirror,      \* the Compiler's mirror argument (Expr's boundary)
    decoded,     \* the result of decodeToken: an op or an error
    dstep,       \* "token", "decoded", "pushed" (in ops) or "rejected"
    \* one call of exprCreate, selectCreate or propExprCreate
    filter,      \* "Expr", "Select" or "PropExpr"
    given,       \* the expr argument: a sequence of token sequences
    numPlanes,   \* d->vi.format->numPlanes
    numClips,    \* d->numInputs
    inFormat,    \* vi[0]->format: bitsPerSample and sampleType
    outFormat,   \* d->vi.format
    opt,         \* the opt argument
    planeI,      \* the index of the loop over the planes (expressions)
    plane,       \* d->plane
    compiledFor, \* per plane, the expression its routine was compiled from
    cstep,       \* "args", "loop", "compile", "created", "error", "escaped"
    hostError,   \* the message of vsapi->setError, "" when not called
    nodesFreed,  \* vsapi->freeNode was called on the input nodes
    \* one frame of Select or PropExpr
    fkind,       \* "Select" or "PropExpr"
    frameN,      \* n, the frame number
    numSrc,      \* d->srcNodes.size()
    exprs,       \* per plane (Select) or per element of the key's array
                 \* (PropExpr): ops.size() and what interpret does on the ops
    fI,          \* the index of the loop over the planes
    selectedClip,\* rd->selectedClip
    srcIndexed,  \* the indices d->srcNodes was subscripted with
    vals,        \* PropExpr: vals, and the index of the expression taken
    outProps,    \* PropExpr: the values of the key in the output frame
    fstep,       \* the position in selectGetFrame or propExprGetFrame
    \* one call of the compiled routine: the two loops and the store
    rWidth,      \* state.width
    rHeight,     \* state.height
    rY,          \* state.y
    rX,          \* state.x
    visits,      \* the (y, x) buildOneIter ran at, in order
    rpc,         \* "loop", or "returned" after Return()
    \* the getFrame callbacks of one filter instance, one frame context per
    \* requested frame
    hfilter,     \* "Expr", "Select" or "PropExpr"
    hPlanes,     \* d->vi.format->numPlanes
    hNodes,      \* d->numInputs, d->nodes.size() or d->numPropInputs
    hSrc,        \* Select: d->srcNodes.size()
    written,     \* the fields of *instanceData the callbacks wrote
    hstep,       \* per context: the activation awaited or the position in it
    frameData,   \* per context: *frameData, <<>> when null, else the RuntimeData
    rd,          \* per context: rd->selectedClip as the second phase left it
    requests,    \* per context: the requestFrameFilter calls, in order
    refs,        \* per context: the frame references of getFrameFilter
    hdst,        \* per context: the frame returned, "none" before
    \* the SORT case of buildOneIter on its own
    snN,         \* op.imm.u
    snSize,      \* stack.size()
    snNet,       \* the network buildSortNet returned
    snI,         \* the comparators of sn done
    touched,     \* the indices stack.at() was called with
    snpc,        \* "call", "loop" or "done"
    \* one call of propExprCreate and the host resources it holds
    pNodes,      \* numInputs: the nodes propGetNode returned
    pDict,       \* what the dict function gives: an error, or per key what
                 \* its value is
    pI,          \* the index of the loop over the keys
    pFrees,      \* the calls of freeFunc and of freeMap on each map
    pNodeFrees,  \* per node, the calls of freeNode
    pOwned,      \* createFilter took over d and its nodes
    pError,      \* the message of the exception in flight or of setError
    pstep        \* the position in propExprCreate

evalVars == <<engine, ops, numInputs, forceFloat, pixelThrows, phase, i,
              stack, under, variables, vars, status, trace, viIndexed, propAccess>>
loadVars == <<width, height, load, stateY, stateX, lanes>>
storeVars == <<outBits, res, stored>>
cacheVars == <<exprCache, pc, req, cached, built, raced, routines, budget, returned>>
arithVars == <<arithOps, arithI, jitVals, fltVals>>
decodeVars == <<token, extended, mirror, decoded, dstep>>
createVars ==
    <<filter, given, numPlanes, numClips, inFormat, outFormat, opt, planeI, plane, compiledFor,
      cstep, hostError, nodesFreed>>
frameVars ==
    <<fkind, frameN, numSrc, exprs, fI, selectedClip, srcIndexed, vals, outProps,
      fstep>>
routineVars == <<rWidth, rHeight, rY, rX, visits, rpc>>
hostVars ==
    <<hfilter, hPlanes, hNodes, hSrc, written, hstep, frameData, rd, requests, refs,
      hdst>>
netVars == <<snN, snSize, snNet, snI, touched, snpc>>
propVars == <<pNodes, pDict, pI, pFrees, pNodeFrees, pOwned, pError, pstep>>
allVars == <<evalVars, loadVars, storeVars, cacheVars, arithVars,
    decodeVars, createVars, frameVars, routineVars, hostVars, netVars,
    propVars>>
exceptEvalVars == <<loadVars, storeVars, cacheVars, arithVars, decodeVars,
    createVars, frameVars, routineVars, hostVars, netVars, propVars>>
exceptLoadVars == <<evalVars, storeVars, cacheVars, arithVars, decodeVars,
    createVars, frameVars, routineVars, hostVars, netVars, propVars>>
exceptStoreVars == <<evalVars, loadVars, cacheVars, arithVars, decodeVars,
    createVars, frameVars, routineVars, hostVars, netVars, propVars>>
exceptCacheVars == <<evalVars, loadVars, storeVars, arithVars, decodeVars,
    createVars, frameVars, routineVars, hostVars, netVars, propVars>>
exceptArithVars == <<evalVars, loadVars, storeVars, cacheVars, decodeVars,
    createVars, frameVars, routineVars, hostVars, netVars, propVars>>
exceptDecodeVars == <<evalVars, loadVars, storeVars, cacheVars, arithVars,
    createVars, frameVars, routineVars, hostVars, netVars, propVars>>
exceptCreateVars == <<evalVars, loadVars, storeVars, cacheVars, arithVars,
    decodeVars, frameVars, routineVars, hostVars, netVars, propVars>>
exceptFrameVars == <<evalVars, loadVars, storeVars, cacheVars, arithVars,
    decodeVars, createVars, routineVars, hostVars, netVars, propVars>>
exceptRoutineVars == <<evalVars, loadVars, storeVars, cacheVars, arithVars,
    decodeVars, createVars, frameVars, hostVars, netVars, propVars>>
exceptHostVars == <<evalVars, loadVars, storeVars, cacheVars, arithVars,
    decodeVars, createVars, frameVars, routineVars, netVars, propVars>>
exceptNetVars == <<evalVars, loadVars, storeVars, cacheVars, arithVars,
    decodeVars, createVars, frameVars, routineVars, hostVars, propVars>>
exceptPropVars == <<evalVars, loadVars, storeVars, cacheVars, arithVars,
    decodeVars, createVars, frameVars, routineVars, hostVars, netVars>>

-----------------------------------------------------------------------------
(* Bounds of the model.                                                     *)

\* Longest op sequence of the general families.
MaxOps == 3
\* Longest op sequence of the variable family.
MaxVarOps == 5
\* Largest number of input clips.
MaxInputs == 2
\* The longest run of pushes before a SORT, hence the largest sorted N.
MaxSortDepth == 5
\* The number of compile requests made one after the other.
MaxRequests == 3
\* The number of compile requests made by two threads.
MaxConcRequests == 2
\* The plane sizes and the offsets of the relative access.
MaxWidth == 18
MaxHeight == 2
\* The plane sizes of a whole call of the routine.
MaxRoutineWidth == 17
MaxRoutineHeight == 3
\* The input nodes of a filter and the source clips of Select.
MaxHostNodes == 2
MaxHostSrc == 2
\* The operand count of a SORT on its own and the values below its operands.
MaxSortN == 9
MaxBelow == 1
\* The clips of a PropExpr and the keys of its dict.
MaxPropNodes == 2
MaxKeys == 3
MaxDx == 11
MaxDy == 3
\* The longest run of pushes before a binary or ternary op.
MaxOrderDepth == 4
\* The numbers of source clips of a Select, of expressions under one key of a
\* PropExpr, and of frames.
MaxSrcClips == 3
MaxArray == 3
MaxFrame == 4
\* The number of expressions given to Expr; a format has at most 3 planes.
MaxExprs == 4
\* The number of values under an argminN or argmaxN.
MaxArgDepth == 4
\* The largest N of a srcN clip name and of a dupN .. argsortN count.
MaxSrc == 26
MaxCount == 2
\* The number of binary ops of an arithmetic expression.
MaxArithOps == 2

-----------------------------------------------------------------------------
(* The IR.                                                                  *)

\* ExprOp: type, imm (the int view of the union), name, x, y, bc.
Op(type, imm, name) ==
    [type |-> type, imm |-> imm, name |-> name, x |-> 0, y |-> 0,
     bc |-> "Unspecified"]

\* A Value of the JIT: the variant's tag and, for one lane, the number the
\* emitted code computes.  The interpreter's floats carry the tag "f".
Val(tag, v) == [tag |-> tag, v |-> v]

\* numOperands[] of buildOneIter.
NumOperands(type) ==
    CASE type \in {"MEM_LOAD", "CONSTANTI", "CONSTANTF", "CONST_LOAD", "VAR_LOAD",
                   "SORT", "DUP", "SWAP", "DROP"} -> 0
      [] type \in {"VAR_STORE", "SQRT", "ABS", "TRUNC", "ROUND", "FLOOR", "NOT",
                   "BITNOT", "EXP", "LOG", "SIN", "COS"} -> 1
      [] type \in {"MEM_LOAD_VAR", "ADD", "SUB", "MUL", "DIV", "MOD", "MAX", "MIN",
                   "CMP", "AND", "OR", "XOR", "BITAND", "BITOR", "BITXOR", "POW"} -> 2
      [] type \in {"CLAMP", "TERNARY"} -> 3

\* The sample a clip holds at the current pixel.
PixelVal(clip) == 7 + clip

\* What a read outside an object may yield.
Garbage == {0, 99}


-----------------------------------------------------------------------------
(* 32-bit helpers.                                                          *)

IntMin == -2147483647 - 1
IntMax == 2147483647

\* a + b in int for a, b >= 0: past INT_MAX the sum is undefined, and the
\* add instruction of the builds wraps.
AddInt(a, b) == IF b > IntMax - a THEN IntMin + (b - (IntMax - a) - 1) ELSE a + b

\* 1 << s for 0 <= s <= 31.
Shl1Defined(s) == IF s = 31 THEN IntMin ELSE 2 ^ s

\* The results a build can give for `1 << s` on a 32-bit int: the shift is
\* undefined for s < 0 and s >= 32, where the hardware either masks the
\* count to its low five bits or shifts everything out.
Shl1(s) ==
    IF s >= 0 /\ s <= 31 THEN {Shl1Defined(s)}
    ELSE {Shl1Defined(s % 32), 0}

\* a & b for non-negative a, b.
RECURSIVE BitAnd(_, _)
BitAnd(a, b) ==
    IF a = 0 \/ b = 0 THEN 0
    ELSE (a % 2) * (b % 2) + 2 * BitAnd(a \div 2, b \div 2)

-----------------------------------------------------------------------------
(* buildSortNet.                                                            *)

\* while (n > (1<<t)) t++;
RECURSIVE SortNetT(_, _)
SortNetT(n, t) == IF n > 2 ^ t THEN SortNetT(n, t + 1) ELSE t

\* for (int i = 0; i < n - d; i++) if ((i & p) == r) sn.emplace_back(i, i+d);
RECURSIVE SortNetFor(_, _, _, _, _)
SortNetFor(n, p, r, d, k) ==
    IF k < n - d
    THEN (IF BitAnd(k, p) = r THEN <<(<<k, k + d>>)>> ELSE <<>>)
         \o SortNetFor(n, p, r, d, k + 1)
    ELSE <<>>

\* while (d > 0) { for ...; d = q - p; q >>= 1; r = p; }
RECURSIVE SortNetWhileD(_, _, _, _, _)
SortNetWhileD(n, p, q, r, d) ==
    IF d > 0
    THEN SortNetFor(n, p, r, d, 0) \o SortNetWhileD(n, p, q \div 2, p, q - p)
    ELSE <<>>

\* while (p > 0) { q = 1 << (t - 1), r = 0, d = p; ...; p >>= 1; }
RECURSIVE SortNetWhileP(_, _, _)
SortNetWhileP(n, t, p) ==
    IF p > 0
    THEN SortNetWhileD(n, p, 2 ^ (t - 1), 0, p) \o SortNetWhileP(n, t, p \div 2)
    ELSE <<>>

\* buildSortNet called with n + 1.
BuildSortNetNext(n) ==
    LET t == SortNetT(n + 1, 0)
    IN  {SortNetWhileP(n + 1, t, p) : p \in Shl1(t - 1)}

\* The networks buildSortNet(n) can return: one, unless 1 << (t - 1) is
\* undefined (n <= 1).
BuildSortNet(n) ==
    LET t == SortNetT(n, 0)
    IN  {SortNetWhileP(n, t, p) : p \in Shl1(t - 1)}

-----------------------------------------------------------------------------
(* Compiler::Value.                                                         *)

NumMin(a, b) == IF a < b THEN a ELSE b
NumMax(a, b) == IF a > b THEN a ELSE b

\* std::get<FloatV> on an IntV (or the reverse) throws bad_variant_access.
ValueGetOk(l, r) == l.tag = r.tag

\* Value::Min / Value::Max, when std::get does not throw.
ValueMin(l, r) == Val(l.tag, NumMin(l.v, r.v))
ValueMax(l, r) == Val(l.tag, NumMax(l.v, r.v))

\* at(i) of the SORT case: stack.at(stack.size() - 1 - i).
At(stk, k) == Len(stk) - k

\* ApplyComparator with min and max exchanged.
ApplyComparatorMaxFirst(stk, cmp) ==
    LET a == At(stk, cmp[1])
        b == At(stk, cmp[2])
    IN  [stk EXCEPT ![a] = ValueMax(stk[a], stk[b]),
                    ![b] = ValueMin(stk[a], stk[b])]

\* One comparator: a = min, b = max.
ApplyComparator(stk, cmp) ==
    LET a == At(stk, cmp[1])
        b == At(stk, cmp[2])
    IN  [stk EXCEPT ![a] = ValueMin(stk[a], stk[b]),
                    ![b] = ValueMax(stk[a], stk[b])]

ComparatorOk(stk, cmp) ==
    ValueGetOk(stk[At(stk, cmp[1])], stk[At(stk, cmp[2])])

\* for (auto cmp: sn) { ... }: the stack after the network, or the throw of
\* the first comparator whose operands differ in tag.
RECURSIVE ApplyNet(_, _, _)
ApplyNet(stk, sn, k) ==
    IF k > Len(sn) THEN [ok |-> TRUE, stk |-> stk]
    ELSE IF ~ComparatorOk(stk, sn[k]) THEN [ok |-> FALSE, stk |-> stk]
    ELSE ApplyNet(ApplyComparator(stk, sn[k]), sn, k + 1)

-----------------------------------------------------------------------------
(* std::sort with the comparator l > r.                                     *)

RECURSIVE InsertDesc(_, _)
InsertDesc(s, e) ==
    IF s = <<>> THEN <<e>>
    ELSE IF e.v > Head(s).v THEN <<e>> \o s
    ELSE <<Head(s)>> \o InsertDesc(Tail(s), e)

RECURSIVE SortDesc(_)
SortDesc(s) == IF s = <<>> THEN <<>> ELSE InsertDesc(SortDesc(Tail(s)), Head(s))

\* std::sort(&stack[size - n], &*stack.end(), ...).
SortTop(stk, n) ==
    SubSeq(stk, 1, Len(stk) - n) \o SortDesc(SubSeq(stk, Len(stk) - n + 1, Len(stk)))


-----------------------------------------------------------------------------
(* The finalisation passes of Compiler::compile.                            *)

\* LoadConstType::LAST.
LoadConstLast == 5

\* The position (from 0) of key in the insertion-ordered keys of a std::map
\* whose values are its size at insertion; -1 when the key is absent.
RECURSIVE IndexOf(_, _, _)
IndexOf(keys, key, k) ==
    IF k > Len(keys) THEN -1
    ELSE IF keys[k] = key THEN k - 1
    ELSE IndexOf(keys, key, k + 1)

\* The property-indexing loop from op k on: paMap's keys so far are keys.
RECURSIVE PropPass(_, _, _, _)
PropPass(os, n, keys, k) ==
    IF k > Len(os) THEN [err |-> "none", ops |-> os, pa |-> keys]
    ELSE IF os[k].type # "CONST_LOAD" \/ os[k].imm < LoadConstLast
         THEN PropPass(os, n, keys, k + 1)
    ELSE IF os[k].imm - LoadConstLast >= n
         THEN [err |-> "undefined clip", ops |-> os, pa |-> keys]
    ELSE LET key   == <<os[k].imm - LoadConstLast, os[k].name>>
             keys2 == IF IndexOf(keys, key, 1) = -1 THEN Append(keys, key) ELSE keys
         IN  PropPass([os EXCEPT ![k].imm = LoadConstLast + IndexOf(keys2, key, 1)],
                      n, keys2, k + 1)

\* The variable-indexing loop from op k on: varMap's keys so far are names.
RECURSIVE VarPass(_, _, _)
VarPass(os, names, k) ==
    IF k > Len(os) THEN [err |-> "none", ops |-> os, names |-> names]
    ELSE IF os[k].type \notin {"VAR_LOAD", "VAR_STORE"}
         THEN VarPass(os, names, k + 1)
    ELSE IF IndexOf(names, os[k].name, 1) = -1 /\ os[k].type = "VAR_LOAD"
         THEN [err |-> "uninitialized variable", ops |-> os, names |-> names]
    ELSE LET names2 == IF IndexOf(names, os[k].name, 1) = -1
                       THEN Append(names, os[k].name) ELSE names
         IN  VarPass([os EXCEPT ![k].imm = IndexOf(names2, os[k].name, 1)],
                     names2, k + 1)

\* compile() up to the loops that call buildOneIter: both passes, then
\* state.variables filled with Value(IntV(0)).
CompilePasses ==
    /\ engine = "jit" /\ phase = "start"
    /\ LET pp == PropPass(ops, numInputs, <<>>, 1)
           vp == VarPass(pp.ops, <<>>, 1)
       IN  IF pp.err # "none"
           THEN /\ status' = pp.err /\ phase' = "done"
                /\ UNCHANGED <<ops, variables, propAccess>>
           ELSE IF vp.err # "none"
           THEN /\ status' = vp.err /\ phase' = "done"
                /\ UNCHANGED <<ops, variables, propAccess>>
           ELSE /\ ops' = vp.ops
                /\ variables' = [k \in 1..Len(vp.names) |-> Val("i", 0)]
                /\ propAccess' = pp.pa
                /\ phase' = "walk"
                /\ UNCHANGED status
    /\ UNCHANGED <<engine, numInputs, forceFloat, pixelThrows, i, stack, under,
                   vars, trace, viIndexed>>
    /\ UNCHANGED exceptEvalVars


-----------------------------------------------------------------------------
(* Compiler::buildOneIter: the walk over ctx.ops with the compile-time      *)
(* stack.                                                                   *)

\* What one executed op did: the stack size before it, the values it popped
\* (top first), the values it pushed, and the lowest slot (from 1) it read
\* or wrote; a slot below 1 is below the bottom of the stack.
Entry(size, consumed, pushed, low) ==
    [size |-> size, consumed |-> consumed, pushed |-> pushed, low |-> low]

\* The outcome of one op: the state it leaves.
Outcome(stk, und, vs, st, entry, idx) ==
    [stack |-> stk, under |-> und, vars |-> vs, status |-> st, entry |-> <<entry>>,
     indexed |-> idx]

\* The outcome of an op that threw before touching the stack.
Thrown(stk, und, vs, st) ==
    [stack |-> stk, under |-> und, vars |-> vs, status |-> st, entry |-> <<>>,
     indexed |-> {}]

DropLast(stk, k) == SubSeq(stk, 1, Len(stk) - k)

\* The tag of a clip load: integer samples, promoted when forceFloat.
LoadTag == IF forceFloat THEN "f" ELSE "i"

\* BINARYOP(op, false): float when either side is float.
BinaryTag(l, r) == IF l.tag = "f" \/ r.tag = "f" THEN "f" ELSE "i"

\* LOAD2 with its two LOAD1 in the other order.
Load2Reversed(stk) == [l |-> stk[Len(stk)], r |-> stk[Len(stk) - 1]]

\* LOAD2(l, r): LOAD1(r); LOAD1(l).
Load2(stk) == [l |-> stk[Len(stk) - 1], r |-> stk[Len(stk)]]

\* CmpEQ .. CmpNLE selected by ComparisonType (EQ = 0, LT = 1, LE = 2,
\* NEQ = 4, NLT = 5, NLE = 6): 1 if l stands in the relation to r, else 0.
Compare(ct, l, r) ==
    LET holds == CASE ct = 0 -> l = r
                   [] ct = 1 -> l < r
                   [] ct = 2 -> l <= r
                   [] ct = 4 -> l # r
                   [] ct = 5 -> ~(l < r)
                   [] ct = 6 -> ~(l <= r)
    IN  IF holds THEN 1 ELSE 0

\* The tag of CLAMP's result.
ClampTag(x, lo, hi) ==
    IF x.tag = "f" \/ lo.tag = "f" \/ hi.tag = "f" \/ forceFloat THEN "f" ELSE "i"

\* The "Check validity" block at the top of the loop body.
JitCheck(op, size) ==
    IF op.type = "MEM_LOAD" /\ op.imm >= numInputs THEN "undefined clip"
    ELSE IF op.type \in {"DUP", "SWAP"} /\ op.imm >= size THEN "insufficient values"
    ELSE IF op.type \in {"DROP", "SORT"} /\ op.imm > size THEN "insufficient values"
    ELSE IF size < NumOperands(op.type) THEN "insufficient values"
    ELSE "none"

\* LoadConstIndex::N, and the bias of the default case of CONST_LOAD:
\* LoadConstIndex::LAST - LoadConstType::LAST.
LoadConstIndexN == 0
LoadConstIndexLast == 1
ConstsBias == LoadConstIndexLast - LoadConstLast

\* The switch (op.type) of the loop body: every state the op can leave.
JitExec(op, stk, vs) ==
    LET n == Len(stk)
        Go(stk2, vs2, e) == Outcome(stk2, 0, vs2, "running", e, {})
    IN  CASE op.type = "DUP" ->
               {Go(Append(stk, stk[n - op.imm]), vs,
                   Entry(n, <<>>, <<stk[n - op.imm]>>, n - op.imm))}
          [] op.type = "SWAP" ->
               {Go([stk EXCEPT ![n] = stk[n - op.imm], ![n - op.imm] = stk[n]], vs,
                   Entry(n, <<>>, <<>>, n - op.imm))}
          [] op.type = "DROP" ->
               {Go(DropLast(stk, op.imm), vs,
                   Entry(n, [k \in 1..op.imm |-> stk[n + 1 - k]], <<>>, n - op.imm + 1))}
          [] op.type = "SORT" ->
               {LET r == ApplyNet(stk, sn, 1)
                IN  IF r.ok
                    THEN Go(r.stk, vs, Entry(n, <<>>, <<>>, n - op.imm + 1))
                    ELSE Outcome(stk, 0, vs, "bad_variant_access",
                                 Entry(n, <<>>, <<>>, n - op.imm + 1), {})
                : sn \in BuildSortNet(op.imm)}
          [] op.type = "MEM_LOAD" ->
               {Outcome(Append(stk, Val(LoadTag, PixelVal(op.imm))), 0, vs, "running",
                        Entry(n, <<>>, <<Val(LoadTag, PixelVal(op.imm))>>, n + 1),
                        {op.imm})}
          [] op.type = "CONST_LOAD" ->
               IF op.imm = 0
               THEN {Go(Append(stk, Val("i", 0)), vs,
                        [size |-> n, consumed |-> <<>>, pushed |-> <<Val("i", 0)>>,
                         low |-> n + 1, consts |-> LoadConstIndexN])}
               ELSE IF op.imm \in 1..(LoadConstLast - 1)
               THEN {Go(Append(stk, Val("i", 0)), vs,
                        Entry(n, <<>>, <<Val("i", 0)>>, n + 1))}
               ELSE {Go(Append(stk, Val("f", 0)), vs,
                        [size |-> n, consumed |-> <<>>, pushed |-> <<Val("f", 0)>>,
                         low |-> n + 1, consts |-> op.imm + ConstsBias])}
          [] op.type = "CONSTANTI" ->
               {Go(Append(stk, Val("i", op.imm)), vs,
                   Entry(n, <<>>, <<Val("i", op.imm)>>, n + 1))}
          [] op.type = "MEM_LOAD_VAR" ->
               LET rest == DropLast(stk, 2)
                   used == <<stk[n], stk[n - 1]>>
               IN  IF op.imm < numInputs
                   THEN {Outcome(Append(rest, Val(LoadTag, PixelVal(op.imm))), 0, vs,
                                 "running",
                                 Entry(n, used, <<Val(LoadTag, PixelVal(op.imm))>>, n - 1),
                                 {op.imm})}
                   \* ctx.vi[op.imm.i] and state.wptrs[op.imm.i + 1] are read past
                   \* their end: the format is whatever lies there.
                   ELSE {Outcome(rest, 0, vs, "crash", Entry(n, used, <<>>, n - 1),
                                 {op.imm}),
                         Outcome(rest, 0, vs, "running", Entry(n, used, <<>>, n - 1),
                                 {op.imm})}
                        \cup
                        {Outcome(Append(rest, Val(t, g)), 0, vs, "running",
                                 Entry(n, used, <<Val(t, g)>>, n - 1), {op.imm})
                         : t \in {"i", "f"}, g \in Garbage}
          [] op.type = "VAR_LOAD" ->
               {Go(Append(stk, vs[op.imm + 1]), vs,
                   Entry(n, <<>>, <<vs[op.imm + 1]>>, n + 1))}
          [] op.type = "VAR_STORE" ->
               {Go(DropLast(stk, 1), [vs EXCEPT ![op.imm + 1] = stk[n]],
                   Entry(n, <<stk[n]>>, <<>>, n))}
          [] op.type = "ADD" ->
               LET l == stk[n - 1]
                   r == stk[n]
                   x == Val(BinaryTag(l, r), l.v + r.v)
               IN  {Go(Append(DropLast(stk, 2), x), vs,
                       Entry(n, <<r, l>>, <<x>>, n - 1))}
          [] op.type = "SUB" ->
               LET l == Load2(stk).l
                   r == Load2(stk).r
                   x == Val(BinaryTag(l, r), l.v - r.v)
               IN  {Go(Append(DropLast(stk, 2), x), vs,
                       Entry(n, <<r, l>>, <<x>>, n - 1))}
          [] op.type = "CMP" ->
               LET l == Load2(stk).l
                   r == Load2(stk).r
                   x == Val("i", Compare(op.imm, l.v, r.v))
               IN  {Go(Append(DropLast(stk, 2), x), vs,
                       Entry(n, <<r, l>>, <<x>>, n - 1))}
          [] op.type = "CLAMP" ->
               LET max == stk[n]
                   min == stk[n - 1]
                   x   == stk[n - 2]
                   y   == Val(ClampTag(x, min, max), NumMax(NumMin(x.v, max.v), min.v))
               IN  {Go(Append(DropLast(stk, 3), y), vs,
                       Entry(n, <<max, min, x>>, <<y>>, n - 2))}
          [] op.type = "TERNARY" ->
               LET f == stk[n]
                   t == stk[n - 1]
                   c == stk[n - 2]
                   y == Val(BinaryTag(t, f), IF c.v > 0 THEN t.v ELSE f.v)
               IN  {Go(Append(DropLast(stk, 3), y), vs,
                       Entry(n, <<f, t, c>>, <<y>>, n - 2))}

\* One iteration of `for (size_t i = 0; i < ctx.ops.size(); i++)`.
BuildOneIterStep ==
    /\ engine = "jit" /\ phase = "walk" /\ status = "running"
    /\ i < Len(ops)
    /\ LET op  == ops[i + 1]
           err == JitCheck(op, Len(stack))
       IN  IF err # "none"
           THEN /\ status' = err /\ phase' = "done"
                /\ UNCHANGED <<i, stack, variables, trace, viIndexed>>
           ELSE \E o \in JitExec(op, stack, variables) :
                    /\ stack' = o.stack
                    /\ variables' = o.vars
                    /\ status' = o.status
                    /\ phase' = IF o.status = "running" THEN "walk" ELSE "done"
                    /\ trace' = trace \o o.entry
                    /\ viIndexed' = viIndexed \cup o.indexed
                    /\ i' = i + 1
    /\ UNCHANGED <<engine, ops, numInputs, forceFloat, pixelThrows, under, vars,
                   propAccess>>
    /\ UNCHANGED exceptEvalVars

\* JitEndStatus with the second end condition off by one.
JitEndStatusLax(size) ==
    IF size = 0 THEN "empty expression"
    ELSE IF size > 2 THEN "unconsumed values"
    ELSE "ok"

\* The end conditions after the loop (the store of the result follows).
JitEndStatus(size) ==
    IF size = 0 THEN "empty expression"
    ELSE IF size > 1 THEN "unconsumed values"
    ELSE "ok"

BuildOneIterEnd ==
    /\ engine = "jit" /\ phase = "walk" /\ status = "running"
    /\ i = Len(ops)
    /\ status' = JitEndStatus(Len(stack))
    /\ phase' = "done"
    /\ UNCHANGED <<engine, ops, numInputs, forceFloat, pixelThrows, i, stack, under,
                   variables, vars, trace, viIndexed, propAccess>>
    /\ UNCHANGED exceptEvalVars


-----------------------------------------------------------------------------
(* interpret.                                                               *)

Names == {"a", "b"}

\* No entry for the name in the std::map vars.
NoVal == Val("none", 0)

\* stack.size() as check_stack's int: a vector whose end lies `und` elements
\* before its begin has a negative size.
IntSize(stk, und) == Len(stk) - und

\* check_stack(nargs) throws.
CheckStackThrows(stk, und, nargs) == IntSize(stk, und) < nargs

\* OUT(x): push_back.  With the end before the begin the value is written
\* below the buffer and the end moves up by one.
PushOutcomes(stk, und, vs, x) ==
    IF und = 0
    THEN {Outcome(Append(stk, x), 0, vs, "running",
                  Entry(Len(stk), <<>>, <<x>>, Len(stk) + 1), {})}
    ELSE {Outcome(stk, und - 1, vs, st,
                  Entry(IntSize(stk, und), <<>>, <<x>>, IntSize(stk, und) + 1), {})
          : st \in {"running", "crash"}}

\* InterpVarStore with insert in place of insert_or_assign: a name keeps its
\* first value.
InterpVarStoreKeepFirst(op, stk, und, vs) ==
    LET n == Len(stk)
        keep(x) == IF vs[op.name] = NoVal THEN x ELSE vs[op.name]
    IN  IF n >= 1
        THEN {Outcome(DropLast(stk, 1), 0, [vs EXCEPT ![op.name] = keep(stk[n])],
                      "running", Entry(n, <<stk[n]>>, <<>>, n), {})}
        ELSE {Outcome(stk, und + 1, [vs EXCEPT ![op.name] = keep(Val("f", g))], st,
                      Entry(IntSize(stk, und), <<Val("f", g)>>, <<>>, IntSize(stk, und)),
                      {})
              : g \in Garbage, st \in {"running", "crash"}}

\* VAR_STORE: LOAD1(v) with no check_stack, then insert_or_assign.
InterpVarStore(op, stk, und, vs) ==
    LET n == Len(stk)
    IN  IF n >= 1
        THEN {Outcome(DropLast(stk, 1), 0, [vs EXCEPT ![op.name] = stk[n]], "running",
                      Entry(n, <<stk[n]>>, <<>>, n), {})}
        \* back() and pop_back() on an empty vector.
        ELSE {Outcome(stk, und + 1, [vs EXCEPT ![op.name] = Val("f", g)], st,
                      Entry(IntSize(stk, und), <<Val("f", g)>>, <<>>, IntSize(stk, und)),
                      {})
              : g \in Garbage, st \in {"running", "crash"}}

\* DUP: check_stack(op.imm.u), then stack[stack.size() - 1 - op.imm.u].
InterpDup(op, stk, und, vs) ==
    LET n == Len(stk)
    IN  IF CheckStackThrows(stk, und, op.imm)
        THEN {Thrown(stk, und, vs, "stack underflow")}
        ELSE IF op.imm < n
        THEN {Outcome(Append(stk, stk[n - op.imm]), 0, vs, "running",
                      Entry(n, <<>>, <<stk[n - op.imm]>>, n - op.imm), {})}
        \* the element before the first one is read.
        ELSE {Outcome(Append(stk, Val("f", g)), 0, vs, st,
                      Entry(n, <<>>, <<Val("f", g)>>, n - op.imm), {})
              : g \in Garbage, st \in {"running", "crash"}}

\* SWAP: check_stack(op.imm.u), then std::swap of the top and the slot.
InterpSwap(op, stk, und, vs) ==
    LET n == Len(stk)
    IN  IF CheckStackThrows(stk, und, op.imm)
        THEN {Thrown(stk, und, vs, "stack underflow")}
        ELSE IF op.imm < n
        THEN {Outcome([stk EXCEPT ![n] = stk[n - op.imm], ![n - op.imm] = stk[n]],
                      0, vs, "running", Entry(n, <<>>, <<>>, n - op.imm), {})}
        \* the element before the first one is swapped with the top.
        ELSE IF n = 0
        THEN {Outcome(stk, 0, vs, st, Entry(n, <<>>, <<>>, n - op.imm), {})
              : st \in {"running", "crash"}}
        ELSE {Outcome([stk EXCEPT ![n] = Val("f", g)], 0, vs, st,
                      Entry(n, <<>>, <<>>, n - op.imm), {})
              : g \in Garbage, st \in {"running", "crash"}}

\* The switch (op.type) of the loop body: every state the op can leave.
\* The comparison of the scan taking an equal value too.
BetterOrEqual(type, x, cur) ==
    (type = "ARGMIN" /\ x <= cur) \/ (type = "ARGMAX" /\ x >= cur)

\* (op.type == ARGMIN && x < cur) || (op.type == ARGMAX && x > cur).
Better(type, x, cur) ==
    (type = "ARGMIN" /\ x < cur) \/ (type = "ARGMAX" /\ x > cur)

\* for (int i = 1; i < op.imm.i; i++): idx after the iterations from k on.
\* cur is the value at idx.  With imm = 0 the read of cur is one past the
\* end of the stack and the value read is not used.
RECURSIVE ArgScan(_, _, _, _, _, _)
ArgScan(type, stk, off, imm, k, idx) ==
    IF k >= imm THEN idx
    ELSE ArgScan(type, stk, off, imm, k + 1,
                 IF Better(type, stk[off + k + 1].v, stk[off + idx + 1].v)
                 THEN k ELSE idx)

InterpExec(op, stk, und, vs) ==
    LET n == Len(stk)
    IN  CASE op.type = "DUP" -> InterpDup(op, stk, und, vs)
          [] op.type = "SWAP" -> InterpSwap(op, stk, und, vs)
          [] op.type = "DROP" ->
               IF CheckStackThrows(stk, und, op.imm)
               THEN {Thrown(stk, und, vs, "stack underflow")}
               ELSE {Outcome(DropLast(stk, op.imm), 0, vs, "running",
                             Entry(n, [k \in 1..op.imm |-> stk[n + 1 - k]], <<>>,
                                   n - op.imm + 1), {})}
          [] op.type \in {"MEM_LOAD", "MEM_LOAD_VAR"} ->
               IF pixelThrows
               THEN {Thrown(stk, und, vs, "pixelGet threw")}
               ELSE PushOutcomes(stk, und, vs, Val("f", 0))
          [] op.type = "CONSTANTI" -> PushOutcomes(stk, und, vs, Val("f", op.imm))
          [] op.type = "VAR_LOAD" ->
               IF vs[op.name] = NoVal
               THEN {Thrown(stk, und, vs, "used before assignment")}
               ELSE PushOutcomes(stk, und, vs, vs[op.name])
          [] op.type = "VAR_STORE" -> InterpVarStore(op, stk, und, vs)
          [] op.type = "ADD" ->
               IF CheckStackThrows(stk, und, 2)
               THEN {Thrown(stk, und, vs, "stack underflow")}
               ELSE {Outcome(Append(DropLast(stk, 2), Val("f", stk[n - 1].v + stk[n].v)),
                             0, vs, "running",
                             Entry(n, <<stk[n], stk[n - 1]>>,
                                   <<Val("f", stk[n - 1].v + stk[n].v)>>, n - 1), {})}
          [] op.type \in {"SUB", "CMP"} ->
               IF CheckStackThrows(stk, und, 2)
               THEN {Thrown(stk, und, vs, "stack underflow")}
               ELSE LET l == Load2(stk).l
                        r == Load2(stk).r
                        x == Val("f", IF op.type = "SUB" THEN l.v - r.v
                                      ELSE Compare(op.imm, l.v, r.v))
                    IN  {Outcome(Append(DropLast(stk, 2), x), 0, vs, "running",
                                 Entry(n, <<r, l>>, <<x>>, n - 1), {})}
          [] op.type = "CLAMP" ->
               IF CheckStackThrows(stk, und, 3)
               THEN {Thrown(stk, und, vs, "stack underflow")}
               ELSE LET max == stk[n]
                        min == stk[n - 1]
                        x   == stk[n - 2]
                        y   == Val("f", NumMax(NumMin(x.v, max.v), min.v))
                    IN  {Outcome(Append(DropLast(stk, 3), y), 0, vs, "running",
                                 Entry(n, <<max, min, x>>, <<y>>, n - 2), {})}
          [] op.type = "TERNARY" ->
               IF CheckStackThrows(stk, und, 3)
               THEN {Thrown(stk, und, vs, "stack underflow")}
               ELSE LET f == stk[n]
                        t == stk[n - 1]
                        c == stk[n - 2]
                        y == IF c.v > 0 THEN t ELSE f
                    IN  {Outcome(Append(DropLast(stk, 3), y), 0, vs, "running",
                                 Entry(n, <<f, t, c>>, <<y>>, n - 2), {})}
          [] op.type = "SORT" ->
               IF CheckStackThrows(stk, und, op.imm)
               THEN {Thrown(stk, und, vs, "stack underflow")}
               ELSE {Outcome(SortTop(stk, op.imm), 0, vs, "running",
                             Entry(n, <<>>, <<>>, n - op.imm + 1), {})}

          [] op.type \in {"ARGMIN", "ARGMAX"} ->
               IF CheckStackThrows(stk, und, op.imm)
               THEN {Thrown(stk, und, vs, "stack underflow")}
               ELSE LET off == n - op.imm
                        idx == Val("f", ArgScan(op.type, stk, off, op.imm, 1, 0))
                        out == Outcome(Append(SubSeq(stk, 1, off), idx), 0, vs, "running",
                                       Entry(n, [k \in 1..op.imm |-> stk[n + 1 - k]],
                                             <<idx>>, off + 1), {})
                    IN  IF op.imm = 0
                        THEN {out, [out EXCEPT !.status = "crash"]}
                        ELSE {out}

\* One iteration of `for (const auto &op: ops)`.
InterpretStep ==
    /\ engine = "interp" /\ phase = "walk" /\ status = "running"
    /\ i < Len(ops)
    /\ \E o \in InterpExec(ops[i + 1], stack, under, vars) :
           /\ stack' = o.stack
           /\ under' = o.under
           /\ vars' = o.vars
           /\ status' = o.status
           /\ phase' = IF o.status = "running" THEN "walk" ELSE "done"
           /\ trace' = trace \o o.entry
           /\ i' = IF o.entry = <<>> THEN i ELSE i + 1
    /\ UNCHANGED <<engine, ops, numInputs, forceFloat, pixelThrows, variables,
                   viIndexed, propAccess>>
    /\ UNCHANGED exceptEvalVars

\* The end conditions after the loop, rstk being null: stack.empty() compares
\* begin and end, stack.size() > 1 is an unsigned comparison.
InterpEndStatus(stk, und) ==
    IF Len(stk) = 0 /\ und = 0 THEN "empty expression"
    ELSE IF und > 0 \/ Len(stk) > 1 THEN "unconsumed values"
    ELSE "ok"

InterpretEnd ==
    /\ engine = "interp" /\ phase = "walk" /\ status = "running"
    /\ i = Len(ops)
    /\ status' = InterpEndStatus(stack, under)
    /\ phase' = "done"
    /\ UNCHANGED <<engine, ops, numInputs, forceFloat, pixelThrows, i, stack, under,
                   variables, vars, trace, viIndexed, propAccess>>
    /\ UNCHANGED exceptEvalVars


-----------------------------------------------------------------------------
(* Evaluating one op sequence: by compile() or by interpret().              *)

\* The parts of the state a specification does not use.
LoadIdle ==
    /\ width = 0 /\ height = 0 /\ load = Op("MEM_LOAD", 0, "")
    /\ stateY = 0 /\ stateX = 0 /\ lanes = <<>>
StoreIdle == outBits = 0 /\ res = Val("i", 0) /\ stored = {}
CacheIdle ==
    /\ exprCache = <<>> /\ pc = <<>> /\ req = <<>> /\ cached = <<>>
    /\ built = <<>> /\ raced = {} /\ routines = 0 /\ budget = 0 /\ returned = <<>>
EvalIdle ==
    /\ engine = "none" /\ ops = <<>> /\ numInputs = 0 /\ forceFloat = TRUE
    /\ pixelThrows = TRUE /\ phase = "idle" /\ i = 0 /\ stack = <<>> /\ under = 0
    /\ variables = <<>> /\ vars = <<>> /\ status = "idle" /\ trace = <<>>
    /\ viIndexed = {} /\ propAccess = <<>>

ArithIdle == arithOps = <<>> /\ arithI = 0 /\ jitVals = <<>> /\ fltVals = <<>>

DecodeIdle ==
    /\ token = <<>> /\ extended = FALSE /\ mirror = 0 /\ decoded = <<>>
    /\ dstep = "idle"

CreateIdle ==
    /\ filter = "none" /\ given = <<>> /\ numPlanes = 0 /\ numClips = 0
    /\ inFormat = <<>>
    /\ outFormat = <<>> /\ opt = 0 /\ planeI = 0 /\ plane = <<>>
    /\ compiledFor = <<>> /\ cstep = "idle" /\ hostError = "" /\ nodesFreed = FALSE

FrameIdle ==
    /\ fkind = "none" /\ frameN = 0 /\ numSrc = 0 /\ exprs = <<>> /\ fI = 0
    /\ selectedClip = <<>> /\ srcIndexed = {} /\ vals = <<>> /\ outProps = <<>>
    /\ fstep = "idle"

RoutineIdle ==
    /\ rWidth = 0 /\ rHeight = 0 /\ rY = 0 /\ rX = 0 /\ visits = <<>>
    /\ rpc = "idle"

HostIdle ==
    /\ hfilter = "none" /\ hPlanes = 0 /\ hNodes = 0 /\ hSrc = 0 /\ written = {}
    /\ hstep = <<>> /\ frameData = <<>> /\ rd = <<>> /\ requests = <<>>
    /\ refs = <<>> /\ hdst = <<>>

NetIdle ==
    /\ snN = 0 /\ snSize = 0 /\ snNet = <<>> /\ snI = 0 /\ touched = {} /\ snpc = "idle"

PropIdle ==
    /\ pNodes = 0 /\ pDict = <<>> /\ pI = 0 /\ pFrees = <<>> /\ pNodeFrees = <<>>
    /\ pOwned = FALSE
    /\ pError = "" /\ pstep = "idle"

\* Everything but one part of the state is idle.
ExceptEvalIdle == LoadIdle /\ StoreIdle /\ CacheIdle /\ ArithIdle /\
    DecodeIdle /\ CreateIdle /\ FrameIdle /\ RoutineIdle /\ HostIdle /\
    NetIdle /\ PropIdle
ExceptLoadIdle == EvalIdle /\ StoreIdle /\ CacheIdle /\ ArithIdle /\
    DecodeIdle /\ CreateIdle /\ FrameIdle /\ RoutineIdle /\ HostIdle /\
    NetIdle /\ PropIdle
ExceptStoreIdle == EvalIdle /\ LoadIdle /\ CacheIdle /\ ArithIdle /\
    DecodeIdle /\ CreateIdle /\ FrameIdle /\ RoutineIdle /\ HostIdle /\
    NetIdle /\ PropIdle
ExceptCacheIdle == EvalIdle /\ LoadIdle /\ StoreIdle /\ ArithIdle /\
    DecodeIdle /\ CreateIdle /\ FrameIdle /\ RoutineIdle /\ HostIdle /\
    NetIdle /\ PropIdle
ExceptArithIdle == EvalIdle /\ LoadIdle /\ StoreIdle /\ CacheIdle /\
    DecodeIdle /\ CreateIdle /\ FrameIdle /\ RoutineIdle /\ HostIdle /\
    NetIdle /\ PropIdle
ExceptDecodeIdle == EvalIdle /\ LoadIdle /\ StoreIdle /\ CacheIdle /\
    ArithIdle /\ CreateIdle /\ FrameIdle /\ RoutineIdle /\ HostIdle /\
    NetIdle /\ PropIdle
ExceptCreateIdle == EvalIdle /\ LoadIdle /\ StoreIdle /\ CacheIdle /\
    ArithIdle /\ DecodeIdle /\ FrameIdle /\ RoutineIdle /\ HostIdle /\
    NetIdle /\ PropIdle
ExceptFrameIdle == EvalIdle /\ LoadIdle /\ StoreIdle /\ CacheIdle /\
    ArithIdle /\ DecodeIdle /\ CreateIdle /\ RoutineIdle /\ HostIdle /\
    NetIdle /\ PropIdle
ExceptRoutineIdle == EvalIdle /\ LoadIdle /\ StoreIdle /\ CacheIdle /\
    ArithIdle /\ DecodeIdle /\ CreateIdle /\ FrameIdle /\ HostIdle /\
    NetIdle /\ PropIdle
ExceptHostIdle == EvalIdle /\ LoadIdle /\ StoreIdle /\ CacheIdle /\
    ArithIdle /\ DecodeIdle /\ CreateIdle /\ FrameIdle /\ RoutineIdle /\
    NetIdle /\ PropIdle
ExceptNetIdle == EvalIdle /\ LoadIdle /\ StoreIdle /\ CacheIdle /\
    ArithIdle /\ DecodeIdle /\ CreateIdle /\ FrameIdle /\ RoutineIdle /\
    HostIdle /\ PropIdle
ExceptPropIdle == EvalIdle /\ LoadIdle /\ StoreIdle /\ CacheIdle /\
    ArithIdle /\ DecodeIdle /\ CreateIdle /\ FrameIdle /\ RoutineIdle /\
    HostIdle /\ NetIdle

SeqsUpTo(S, n) == UNION {[1..k -> S] : k \in 0..n}

\* Stack helpers, one literal, one binary op, one store.
StackOps ==
    {Op("CONSTANTI", 1, ""), Op("ADD", 0, ""), Op("VAR_STORE", -1, "a")}
    \cup {Op(t, n, "") : t \in {"DUP", "SWAP"}, n \in 0..1}
    \cup {Op(t, n, "") : t \in {"DROP", "SORT"}, n \in 1..2}

\* Pixel access to every clip index up to MaxInputs.
TermOps ==
    {Op("CONSTANTI", 1, "")}
    \cup {Op(t, c, "") : t \in {"MEM_LOAD", "MEM_LOAD_VAR"}, c \in 0..MaxInputs}

\* Two literals, a store, and loads of the stored and of another name.
VarOps ==
    {Op("CONSTANTI", 1, ""), Op("CONSTANTI", 2, ""), Op("VAR_STORE", -1, "a"),
     Op("VAR_LOAD", -1, "a"), Op("VAR_LOAD", -1, "b")}

\* The op sequences evaluated, with the inputs that matter to each family.
Families ==
    {[progs |-> SeqsUpTo(StackOps, MaxOps), inputs |-> {1}, flags |-> {TRUE}],
     [progs |-> SeqsUpTo(TermOps, MaxOps), inputs |-> 1..MaxInputs, flags |-> BOOLEAN],
     [progs |-> SeqsUpTo(VarOps, MaxVarOps), inputs |-> {1}, flags |-> {TRUE}]}

Init ==
    /\ \E fam \in Families :
           /\ ops \in fam.progs
           /\ numInputs \in fam.inputs
           /\ \E flag \in fam.flags :
                  \/ engine = "jit" /\ forceFloat = flag /\ pixelThrows = TRUE
                     /\ phase = "start"
                  \/ engine = "interp" /\ forceFloat = TRUE /\ pixelThrows = flag
                     /\ phase = "walk"
    /\ i = 0
    /\ stack = <<>>
    /\ under = 0
    /\ variables = <<>>
    /\ vars = [n \in Names |-> NoVal]
    /\ status = "running"
    /\ trace = <<>>
    /\ viIndexed = {}
    /\ propAccess = <<>>
    /\ ExceptEvalIdle

Next ==
    \/ CompilePasses
    \/ BuildOneIterStep
    \/ BuildOneIterEnd
    \/ InterpretStep
    \/ InterpretEnd

Spec == Init /\ [][Next]_allVars


-----------------------------------------------------------------------------
(* Evaluating `v1 ... vk sortN`: pushes followed by one SORT.              *)

\* Two literals and a pixel: three different values, and under force-float
\* two different tags in the JIT.
PushOps == {Op("CONSTANTI", 1, ""), Op("CONSTANTI", 2, ""), Op("MEM_LOAD", 0, "")}

InitSort ==
    /\ \E pre \in SeqsUpTo(PushOps, MaxSortDepth), n \in 0..MaxSortDepth :
           ops = Append(pre, Op("SORT", n, ""))
    /\ numInputs = 1
    /\ \/ engine = "jit" /\ forceFloat \in BOOLEAN /\ pixelThrows = TRUE
          /\ phase = "start"
       \/ engine = "interp" /\ forceFloat = TRUE /\ pixelThrows = FALSE
          /\ phase = "walk"
    /\ i = 0
    /\ stack = <<>>
    /\ under = 0
    /\ variables = <<>>
    /\ vars = [n \in Names |-> NoVal]
    /\ status = "running"
    /\ trace = <<>>
    /\ viIndexed = {}
    /\ propAccess = <<>>
    /\ ExceptEvalIdle

SpecSort == InitSort /\ [][Next]_allVars

-----------------------------------------------------------------------------
(* Evaluating `v1 ... vk argminN` and `v1 ... vk argmaxN` in the            *)
(* interpreter, as Select and PropExpr do.                                  *)

ArgPushOps == {Op("CONSTANTI", n, "") : n \in 0..2}

InitArg ==
    /\ \E pre \in SeqsUpTo(ArgPushOps, MaxArgDepth), n \in 0..(MaxArgDepth + 1),
          type \in {"ARGMIN", "ARGMAX"} :
           ops = Append(pre, Op(type, n, ""))
    /\ numInputs = 1
    /\ engine = "interp" /\ forceFloat = TRUE /\ pixelThrows = TRUE
    /\ phase = "walk"
    /\ i = 0
    /\ stack = <<>>
    /\ under = 0
    /\ variables = <<>>
    /\ vars = [n \in Names |-> NoVal]
    /\ status = "running"
    /\ trace = <<>>
    /\ viIndexed = {}
    /\ propAccess = <<>>
    /\ ExceptEvalIdle

NextInterp == InterpretStep \/ InterpretEnd

SpecArg == InitArg /\ [][NextInterp]_allVars

-----------------------------------------------------------------------------
(* The store of the result into an integer output plane, for one lane.      *)
(* An integer-tagged result holds its value; a float-tagged result holds    *)
(* twice its value, so that halves can be rounded.  A 32-bit sample is kept *)
(* as the int that was written: a negative p is the sample 2^32 + p.        *)

\* RoundInt: round to nearest, ties to even, of h / 2.
RoundInt(h) ==
    LET q == h \div 2
    IN  IF h % 2 = 0 THEN q
        ELSE IF q % 2 = 0 THEN q ELSE q + 1

\* const int maxval = (1 << format->bitsPerSample) - 1, in 32-bit int
\* arithmetic: every value a build can compute.
MaxVals(bits) == {p - 1 : p \in Shl1(bits)}

\* format->bytesPerSample of an integer format.
BytesPerSample(bits) == IF bits <= 8 THEN 1 ELSE IF bits <= 16 THEN 2 ELSE 4

\* The narrowing conversion of the written vector type.
Narrow(v, bytes) == IF bytes = 4 THEN v ELSE v % (2 ^ (8 * bytes))

\* The samples the stInteger branch can write for result r.
StoreInteger(bits, r) ==
    {Narrow(IF r.tag = "f"
            THEN RoundInt(NumMin(NumMax(r.v, 0), 2 * maxval))
            ELSE IF bits < 32 THEN NumMin(NumMax(r.v, 0), maxval)
            ELSE r.v,
            BytesPerSample(bits))
     : maxval \in MaxVals(bits)}

\* The integer output depths exprCreate accepts.
IntegerBits == (8..16) \cup {32}

\* Results below, inside and above the 8- and 16-bit ranges.
IntResults == {-3, 0, 5, 255, 256, 1000, 65535, 65536, 70000}
FloatResults == {-3, 0, 1, 3, 5, 10, 511, 131070, 131071, 140000}

InitStore ==
    /\ outBits \in IntegerBits
    /\ res \in {Val("i", v) : v \in IntResults} \cup {Val("f", h) : h \in FloatResults}
    /\ stored = {}
    /\ ExceptStoreIdle

StoreResult ==
    /\ stored = {}
    /\ \E v \in StoreInteger(outBits, res) : stored' = {v}
    /\ UNCHANGED <<outBits, res>>
    /\ UNCHANGED exceptStoreVars

NextStore == StoreResult

SpecStore == InitStore /\ [][NextStore]_allVars

-----------------------------------------------------------------------------
(* Evaluating `v1 ... vk OP`: pushes followed by one op with operands.      *)

\* Three literals and a pixel.
OrderPushOps == {Op("CONSTANTI", n, "") : n \in 0..2} \cup {Op("MEM_LOAD", 0, "")}

\* `-`, `<`, `>`, `clamp`, `?`.
OrderOps ==
    {Op("SUB", 0, ""), Op("CMP", 1, ""), Op("CMP", 6, ""), Op("CLAMP", 0, ""),
     Op("TERNARY", 0, "")}

InitOrder ==
    /\ \E pre \in SeqsUpTo(OrderPushOps, MaxOrderDepth), op \in OrderOps :
           ops = Append(pre, op)
    /\ numInputs = 1
    /\ \/ engine = "jit" /\ forceFloat \in BOOLEAN /\ pixelThrows = TRUE
          /\ phase = "start"
       \/ engine = "interp" /\ forceFloat = TRUE /\ pixelThrows = FALSE
          /\ phase = "walk"
    /\ i = 0
    /\ stack = <<>>
    /\ under = 0
    /\ variables = <<>>
    /\ vars = [n \in Names |-> NoVal]
    /\ status = "running"
    /\ trace = <<>>
    /\ viIndexed = {}
    /\ propAccess = <<>>
    /\ ExceptEvalIdle

SpecOrder == InitOrder /\ [][Next]_allVars

-----------------------------------------------------------------------------
(* decodeToken and the loop of Context's constructor around it.  A token is *)
(* kept as the parts decodeToken's comparisons and regular expressions find *)
(* in it; a one-letter clip name is its character code.                     *)

\* ^([a-z]|src[0-9]+): 'a' .. 'z', or the number after "src", of which
\* std::stoi takes every value up to INT_MAX.
ClipNames ==
    {[letter |-> c, src |-> -1] : c \in 97..122}
    \cup {[letter |-> 0, src |-> k] : k \in (0..MaxSrc) \cup {IntMax}}

\* The entries of the `simple` table drawn here.
SimpleTable ==
    [name \in {"+", "dup", "swap", "drop", "N"} |->
        CASE name = "+" -> Op("ADD", 0, "")
          [] name = "dup" -> Op("DUP", 0, "")
          [] name = "swap" -> Op("SWAP", 1, "")
          [] name = "drop" -> Op("DROP", 1, "")
          [] name = "N" -> Op("CONST_LOAD", 0, "")]

CountPrefixes == {"dup", "swap", "drop", "sort"}
ArgPrefixes == {"argmin", "argmax", "argsort"}

Token(kind, clip, text, n, dx, dy, flag) ==
    [kind |-> kind, clip |-> clip, text |-> text, n |-> n, dx |-> dx, dy |-> dy,
     flag |-> flag]

NoClip == [letter |-> 0, src |-> -1]

\* The tokens decoded: table entries, clip names, name@ and name!, prefixes
\* with a count (-1: no count, or not the whole rest of the token), x.prop,
\* x[dx,dy] with its flag, x[], integer literals and other text.
Tokens ==
    {Token("simple", NoClip, t, 0, 0, 0, "") : t \in DOMAIN SimpleTable}
    \cup {Token("clip", c, "", 0, 0, 0, "") : c \in ClipNames}
    \cup {Token("var", NoClip, "a", 0, 0, 0, f) : f \in {"@", "!"}}
    \cup {Token("count", NoClip, t, n, 0, 0, "")
          : t \in CountPrefixes \cup ArgPrefixes, n \in -1..MaxCount}
    \cup {Token("prop", c, "p", 0, 0, 0, "") : c \in ClipNames}
    \cup {Token("rel", c, "", 0, dx, dy, f)
          : c \in ClipNames, dx \in {-1, 2}, dy \in {0, 1}, f \in {"", ":c", ":m"}}
    \cup {Token("abs", c, "", 0, 0, 0, "") : c \in ClipNames}
    \cup {Token("int", NoClip, "", n, 0, 0, "") : n \in {0, 255}}
    \cup {Token("other", NoClip, "?!", 0, 0, 0, "")}

\* extractClipId numbering the letters from 'a'.
ExtractClipIdAlphabetical(name) ==
    IF name.src < 0 THEN name.letter - 97 ELSE name.src

\* extractClipId: 'x' is 120 and 'a' is 97.
ExtractClipId(name) ==
    IF name.src < 0
    THEN IF name.letter >= 120 THEN name.letter - 120 ELSE name.letter - 97 + 3
    ELSE name.src

Decoded(op) == [ok |-> TRUE, op |-> op, err |-> ""]
Rejected(err) == [ok |-> FALSE, op |-> Op("", 0, ""), err |-> err]

\* decodeToken with its argmin/argmax/argsort branch open to every caller.
DecodeArgAlways(tok, ext) ==
    IF tok.n < 0 THEN Rejected("illegal token")
    ELSE Decoded(Op(CASE tok.text = "argsort" -> "ARGSORT"
                      [] tok.text = "argmin" -> "ARGMIN"
                      [] tok.text = "argmax" -> "ARGMAX", tok.n, ""))

\* The branch `extended && (argmin | argmax | argsort)`, and for a caller
\* that is not extended the fall through every later branch to the number
\* conversions, which fail.
DecodeArg(tok, ext) ==
    IF ext
    THEN IF tok.n < 0 THEN Rejected("illegal token")
         ELSE Decoded(Op(CASE tok.text = "argsort" -> "ARGSORT"
                           [] tok.text = "argmin" -> "ARGMIN"
                           [] tok.text = "argmax" -> "ARGMAX", tok.n, ""))
    ELSE Rejected("failed to convert to float")

\* The flag of a relative access: flag[1] == 'm'.
FlagBc(flag) ==
    IF flag = "" THEN "Unspecified" ELSE IF flag = ":m" THEN "Mirrored" ELSE "Clamped"

\* decodeToken(token, extended).
DecodeToken(tok, ext) ==
    CASE tok.kind = "simple" -> Decoded(SimpleTable[tok.text])
      [] tok.kind = "clip" -> Decoded(Op("MEM_LOAD", ExtractClipId(tok.clip), ""))
      [] tok.kind = "var" ->
           Decoded(Op(IF tok.flag = "@" THEN "VAR_LOAD" ELSE "VAR_STORE", -1, tok.text))
      [] tok.kind = "count" /\ tok.text \in CountPrefixes ->
           IF tok.n < 0 THEN Rejected("illegal token")
           ELSE Decoded(Op(CASE tok.text = "dup" -> "DUP"
                             [] tok.text = "swap" -> "SWAP"
                             [] tok.text = "drop" -> "DROP"
                             [] tok.text = "sort" -> "SORT", tok.n, ""))
      [] tok.kind = "count" /\ tok.text \in ArgPrefixes -> DecodeArg(tok, ext)
      [] tok.kind = "prop" ->
           Decoded(Op("CONST_LOAD", AddInt(LoadConstLast, ExtractClipId(tok.clip)),
                      tok.text))
      [] tok.kind = "rel" ->
           Decoded([Op("MEM_LOAD", ExtractClipId(tok.clip), "")
                       EXCEPT !.x = tok.dx, !.y = tok.dy, !.bc = FlagBc(tok.flag)])
      [] tok.kind = "abs" -> Decoded(Op("MEM_LOAD_VAR", ExtractClipId(tok.clip), ""))
      [] tok.kind = "int" -> Decoded(Op("CONSTANTI", tok.n, ""))
      [] tok.kind = "other" -> Rejected("failed to convert to float")

\* The default that ignores what the token asked for.
DefaultBcAlways(bc, m) == IF m # 0 THEN "Mirrored" ELSE "Clamped"

\* if (op.bc == Unspecified) op.bc = mirror ? Mirrored : Clamped.
DefaultBc(bc, m) ==
    IF bc = "Unspecified" THEN IF m # 0 THEN "Mirrored" ELSE "Clamped" ELSE bc

\* Expr's Compiler (not extended, with a boundary argument) or Select's and
\* PropExpr's creation (extended) takes a token.
InitDecode ==
    /\ token \in Tokens
    /\ \/ extended = FALSE /\ mirror \in 0..2
       \/ extended = TRUE /\ mirror = 0
    /\ decoded = <<>>
    /\ dstep = "token"
    /\ ExceptDecodeIdle

\* auto op = decodeToken(tok): the op, or the throw that ends the creation.
DecodeStep ==
    /\ dstep = "token"
    /\ decoded' = DecodeToken(token, extended)
    /\ dstep' = IF DecodeToken(token, extended).ok THEN "decoded" ELSE "rejected"
    /\ UNCHANGED <<token, extended, mirror>>
    /\ UNCHANGED exceptDecodeVars

\* Context's constructor: an Unspecified bc becomes the default; then
\* ops.push_back(op).
ContextPush ==
    /\ dstep = "decoded" /\ ~extended
    /\ decoded' = [decoded EXCEPT !.op.bc = DefaultBc(@, mirror)]
    /\ dstep' = "pushed"
    /\ UNCHANGED <<token, extended, mirror>>
    /\ UNCHANGED exceptDecodeVars

\* selectCreate and propExprCreate: ops.push_back(op) as decoded.
ExtendedPush ==
    /\ dstep = "decoded" /\ extended
    /\ dstep' = "pushed"
    /\ UNCHANGED <<token, extended, mirror, decoded>>
    /\ UNCHANGED exceptDecodeVars

NextDecode == DecodeStep \/ ContextPush \/ ExtendedPush

SpecDecode == InitDecode /\ [][NextDecode]_allVars

-----------------------------------------------------------------------------
(* exprCreate, selectCreate and propExprCreate: the checks of the           *)
(* arguments, the loop over the planes (PropExpr: over the expressions of   *)
(* one key) that decodes each expression and compiles it (Expr) or          *)
(* interprets it once (Select, PropExpr), and the catch around them.        *)

TokX == Token("clip", [letter |-> 120, src |-> -1], "", 0, 0, 0, "")
TokY == Token("clip", [letter |-> 121, src |-> -1], "", 0, 0, 0, "")
TokInt(n) == Token("int", NoClip, "", n, 0, 0, "")
TokSimple(t) == Token("simple", NoClip, t, 0, 0, 0, "")

\* "", "x" and "x x": a plane to copy, a plane to process, and an error.
PlaneExprs == {<<>>, <<TokX>>, <<TokX, TokX>>}

\* Expressions for every way a creation ends: "", "x", "1", "y", "x x", "+",
\* "a@", "?!", "1 argmin1" and "x 1 sort2 drop".
AllExprs ==
    PlaneExprs
    \cup {<<TokInt(1)>>, <<TokY>>, <<TokSimple("+")>>,
          <<Token("var", NoClip, "a", 0, 0, 0, "@")>>,
          <<Token("other", NoClip, "?!", 0, 0, 0, "")>>,
          <<TokInt(1), Token("count", NoClip, "argmin", 1, 0, 0, "")>>,
          <<TokX, TokInt(1), Token("count", NoClip, "sort", 2, 0, 0, ""),
            TokSimple("drop")>>}

TokProp(c, name) == Token("prop", c, name, 0, 0, 0, "")

\* N, x.a, x.b, y.a, z.a, and the property of the clip with the largest
\* number std::stoi takes: src2147483647.a.
PropertyTokens ==
    {TokSimple("N")}
    \cup {TokProp([letter |-> c, src |-> -1], "a") : c \in 120..122}
    \cup {TokProp([letter |-> 120, src |-> -1], "b"),
          TokProp([letter |-> 0, src |-> IntMax], "a")}

\* t1, t1 t2 + and t1 t2 + t3 + over these tokens.
PropertyExprs ==
    {<<t>> : t \in PropertyTokens}
    \cup {<<t, u, TokSimple("+")>> : t, u \in PropertyTokens}
    \cup {<<t, u, TokSimple("+"), v, TokSimple("+")>> : t, u, v \in PropertyTokens}

Format(bits, type) == [bitsPerSample |-> bits, sampleType |-> type]

\* The statuses of a compile or an interpret that are a std::runtime_error.
RuntimeErrors ==
    {"empty expression", "unconsumed values", "undefined clip", "insufficient values",
     "stack underflow", "used before assignment", "uninitialized variable",
     "pixelGet threw"}

\* exprGetFrame: consts = { n }, then the value of each propAccess entry,
\* a value being denoted by the (clip, name) it is read from.
FrameConsts(n, pa) == <<<<n>>>> \o pa

\* for (i = nexpr; i < 3; ++i) expr[i] = expr[nexpr - 1].
ExprOfPlane(expr, p) == IF p <= Len(expr) THEN expr[p] ELSE expr[Len(expr)]

\* The comparison of the formats by the bit depth alone.
SameFormatBits(out, in) == out.bitsPerSample = in.bitsPerSample

\* bitsPerSample and sampleType of the output equal vi[0]'s.
SameFormat(out, in) ==
    out.bitsPerSample = in.bitsPerSample /\ out.sampleType = in.sampleType

\* d->plane[i] of a plane: poProcess, poCopy or poUndefined.
PlaneOp(e, out, in) ==
    IF e # <<>> THEN "poProcess"
    ELSE IF SameFormat(out, in) THEN "poCopy" ELSE "poUndefined"

\* The prefix of the message only.
ErrorPrefix == [f \in {"Expr", "Select", "PropExpr"} |-> f \o ": "]

\* The number of iterations of the loop: planes, or PropExpr's expressions.
CreateLimit == IF filter = "PropExpr" THEN Len(given) ELSE numPlanes

InitCreate ==
    /\ \/ /\ filter = "Expr"
          /\ \E n \in 1..MaxExprs : given \in [1..n -> PlaneExprs]
          /\ numPlanes \in {1, 3}
          /\ inFormat \in {Format(8, "stInteger"), Format(16, "stInteger")}
          /\ outFormat \in {Format(8, "stInteger"), Format(16, "stInteger"),
                            Format(16, "stFloat")}
          /\ opt = 0
          /\ numClips = 1
       \/ /\ filter \in {"Expr", "Select", "PropExpr"}
          /\ \E e \in AllExprs : given = <<e>>
          /\ numPlanes \in {1, 3}
          /\ inFormat = Format(8, "stInteger")
          /\ outFormat = inFormat
          /\ opt \in {0, 1}
          /\ numClips = 1
       \/ /\ filter = "Expr"
          /\ given \in {<<e>> : e \in PropertyExprs}
          /\ numPlanes = 1
          /\ inFormat = Format(8, "stInteger")
          /\ outFormat = inFormat
          /\ opt = 0
          /\ numClips \in 1..2
    /\ planeI = 0
    /\ plane = <<"poProcess", "poProcess", "poProcess">>
    /\ compiledFor = <<<<>>, <<>>, <<>>>>
    /\ cstep = "args"
    /\ hostError = ""
    /\ nodesFreed = FALSE
    /\ ExceptCreateIdle

\* catch (std::runtime_error &e): freeNode, setError, return.
Caught ==
    /\ cstep' = "error"
    /\ hostError' = ErrorPrefix[filter]
    /\ nodesFreed' = TRUE

EvalReset ==
    /\ engine' = "none" /\ ops' = <<>> /\ numInputs' = 0 /\ forceFloat' = TRUE
    /\ pixelThrows' = TRUE /\ phase' = "idle" /\ i' = 0 /\ stack' = <<>>
    /\ under' = 0 /\ variables' = <<>> /\ vars' = <<>> /\ status' = "idle"
    /\ trace' = <<>> /\ viIndexed' = {} /\ propAccess' = <<>>

\* Compiler<LANES> comp(...); comp.compile(), or the interpret
\* call of a creation, whose pixelGet throws.
EvalStart(o) ==
    /\ ops' = o
    /\ numInputs' = numClips
    /\ IF filter = "Expr"
       THEN engine' = "jit" /\ forceFloat' = (opt % 2 = 0) /\ phase' = "start"
       ELSE engine' = "interp" /\ forceFloat' = TRUE /\ phase' = "walk"
    /\ pixelThrows' = TRUE
    /\ i' = 0 /\ stack' = <<>> /\ under' = 0 /\ variables' = <<>>
    /\ vars' = [n \in Names |-> NoVal]
    /\ status' = "running" /\ trace' = <<>> /\ viIndexed' = {}
    /\ propAccess' = <<>>

\* if (nexpr > numPlanes) throw.  PropExpr has no such check.
CreateArgs ==
    /\ cstep = "args"
    /\ IF filter # "PropExpr" /\ Len(given) > numPlanes
       THEN Caught
       ELSE cstep' = "loop" /\ UNCHANGED <<hostError, nodesFreed>>
    /\ UNCHANGED <<filter, given, numPlanes, numClips, inFormat, outFormat, opt, planeI, plane,
                   compiledFor>>
    /\ UNCHANGED exceptCreateVars

\* One iteration of the loop up to the compile or interpret of its
\* expression: Expr sets d->plane[i] and skips a plane that is not processed,
\* PropExpr skips an empty expression, Select takes every expression.
CreatePlane ==
    /\ cstep = "loop" /\ planeI < CreateLimit
    /\ LET e == ExprOfPlane(given, planeI + 1)
           ds == [k \in 1..Len(e) |-> DecodeToken(e[k], filter # "Expr")]
           os == [k \in 1..Len(e) |->
                     IF filter = "Expr"
                     THEN [ds[k].op EXCEPT !.bc = DefaultBc(@, 0)]
                     ELSE ds[k].op]
       IN  /\ plane' = IF filter = "Expr"
                       THEN [plane EXCEPT ![planeI + 1] = PlaneOp(e, outFormat, inFormat)]
                       ELSE plane
           /\ IF e = <<>> /\ filter # "Select"
              THEN /\ planeI' = planeI + 1
                   /\ UNCHANGED <<cstep, hostError, nodesFreed>>
                   /\ UNCHANGED evalVars
              ELSE IF \E k \in 1..Len(e) : ~ds[k].ok
              THEN /\ Caught
                   /\ UNCHANGED planeI
                   /\ UNCHANGED evalVars
              ELSE /\ cstep' = "compile"
                   /\ EvalStart(os)
                   /\ UNCHANGED <<planeI, hostError, nodesFreed>>
    /\ UNCHANGED <<filter, given, numPlanes, numClips, inFormat, outFormat, opt, compiledFor>>
    /\ UNCHANGED <<loadVars, storeVars, cacheVars, arithVars, decodeVars, frameVars,
                   routineVars, hostVars, netVars, propVars>>

\* The compile or the interpret returned or threw: the next iteration, the
\* catch of a std::runtime_error, or an exception of another type, which no
\* handler of the creation function takes.
CreateCompiled ==
    /\ cstep = "compile" /\ phase = "done"
    /\ IF status = "ok"
       THEN /\ cstep' = "loop"
            /\ planeI' = planeI + 1
            /\ compiledFor' = IF filter = "Expr"
                              THEN [compiledFor EXCEPT ![planeI + 1] =
                                       ExprOfPlane(given, planeI + 1)]
                              ELSE compiledFor
            /\ UNCHANGED <<hostError, nodesFreed>>
       ELSE IF status \in RuntimeErrors
       THEN Caught /\ UNCHANGED <<planeI, compiledFor>>
       ELSE /\ cstep' = "escaped"
            /\ UNCHANGED <<planeI, compiledFor, hostError, nodesFreed>>
    /\ EvalReset
    /\ UNCHANGED <<filter, given, numPlanes, numClips, inFormat, outFormat, opt, plane>>
    /\ UNCHANGED <<loadVars, storeVars, cacheVars, arithVars, decodeVars, frameVars,
                   routineVars, hostVars, netVars, propVars>>

\* vsapi->createFilter.
CreateFilter ==
    /\ cstep = "loop" /\ planeI = CreateLimit
    /\ cstep' = "created"
    /\ UNCHANGED <<filter, given, numPlanes, numClips, inFormat, outFormat, opt, planeI, plane,
                   compiledFor, hostError, nodesFreed>>
    /\ UNCHANGED exceptCreateVars

NextCreate ==
    \/ CreateArgs
    \/ CreatePlane
    \/ CreateCompiled
    \/ CreateFilter
    \/ CompilePasses
    \/ BuildOneIterStep
    \/ BuildOneIterEnd
    \/ InterpretStep
    \/ InterpretEnd

SpecCreate == InitCreate /\ [][NextCreate]_allVars

-----------------------------------------------------------------------------
(* selectGetFrame and propExprGetFrame.  What interpret does on the ops of  *)
(* an expression is an input: it throws a std::runtime_error, or returns a  *)
(* float, kept as twice its value when its magnitude is small, and as       *)
(* "huge" (2^31 or more), "neghuge" (below -2^31) or "nan" otherwise.       *)

Result(kind, h) == [kind |-> kind, h |-> h]

\* x after the try block: 0.0f when interpret threw.
CaughtResult(r) == IF r.kind = "error" THEN Result("value", 0) ELSE r

\* std::round of h / 2: halves away from zero.
Round(h) == IF h >= 0 THEN (h + 1) \div 2 ELSE -((1 - h) \div 2)

\* (int)x of the rounded x.  The conversion of a value that no int holds,
\* or of a NaN, is undefined: builds give INT_MIN (the conversion
\* instruction of x86) or the nearest int and 0 for a NaN (saturation).
IntCast(r) ==
    CASE r.kind = "value" -> {Round(r.h)}
      [] r.kind = "huge" -> {IntMin, IntMax}
      [] r.kind = "neghuge" -> {IntMin}
      [] r.kind = "nan" -> {IntMin, 0}

\* std::max(0, std::min((int)x, (int)d->srcNodes.size() - 1)).
ClampClip(v, size) == NumMax(0, NumMin(v, size - 1))

\* What interpret does on the expressions of a Select: the ops are not empty.
SelectResults ==
    {Result("error", 0), Result("huge", 0), Result("neghuge", 0), Result("nan", 0)}
    \cup {Result("value", h) : h \in {-3, 0, 1, 3, 4, 2 * MaxSrcClips + 1}}

\* An expression of a PropExpr: "" has no ops and interpret throws on it.
PropExprs ==
    {[size |-> 0, res |-> Result("error", 0)]}
    \cup {[size |-> 1, res |-> r]
          : r \in {Result("error", 0), Result("nan", 0), Result("value", 4),
                   Result("value", 5), Result("value", -3)}}

\* A value of a frame property.
PropInt(v) == [type |-> "ptInt", v |-> v]
PropFloat(h) == [type |-> "ptFloat", h |-> h]

\* (int64_t)v: the truncation of h / 2 towards zero.  Of a NaN it is
\* undefined: some int64_t.
Int64Cast(r) ==
    IF r.kind = "nan" THEN {IntMin, 0}
    ELSE {IF r.h >= 0 THEN r.h \div 2 ELSE -((-r.h) \div 2)}

\* propSetInt if v == (float)(int64_t)v, else propSetFloat.  A NaN equals
\* nothing.
PropValues(r) ==
    {IF r.kind # "nan" /\ 2 * t = r.h THEN PropInt(t)
     ELSE IF r.kind = "nan" THEN [type |-> "ptFloat", h |-> "nan"]
     ELSE PropFloat(r.h) : t \in Int64Cast(r)}

\* The expression of a frame taken at the index min(n, size - 1).
ExprIndexLast(n, size) == IF n < size THEN n ELSE size - 1

\* pair.second[n % pair.second.size()].
ExprIndex(n, size) == n % size

InitFrame ==
    /\ \/ /\ fkind = "Select"
          /\ numSrc \in 1..MaxSrcClips
          /\ \E planes \in {1, 3} :
                 exprs \in [1..planes -> {[size |-> 1, res |-> r] : r \in SelectResults}]
          /\ frameN = 0
          /\ outProps = <<>>
          /\ selectedClip = <<0, 0, 0>>
       \/ /\ fkind = "PropExpr"
          /\ numSrc = 0
          /\ \E size \in 1..MaxArray : exprs \in [1..size -> PropExprs]
          /\ frameN \in 0..MaxFrame
          /\ outProps \in {<<>>, <<PropInt(7)>>, <<PropFloat(1), PropInt(7)>>}
          /\ selectedClip = <<>>
    /\ fI = 0
    /\ srcIndexed = {}
    /\ vals = <<>>
    /\ fstep = "evaluate"
    /\ ExceptFrameIdle

\* selectGetFrame, all frames of the prop clips ready: one iteration of the
\* loop over the planes.
SelectEvaluate ==
    /\ fkind = "Select" /\ fstep = "evaluate" /\ fI < Len(exprs)
    /\ \E v \in IntCast(CaughtResult(exprs[fI + 1].res)) :
           selectedClip' = [selectedClip EXCEPT ![fI + 1] = ClampClip(v, numSrc)]
    /\ fI' = fI + 1
    /\ UNCHANGED <<fkind, frameN, numSrc, exprs, srcIndexed, vals, outProps, fstep>>
    /\ UNCHANGED exceptFrameVars

\* The requestFrameFilter of d->srcNodes[sel] for every plane's clip.
SelectRequest ==
    /\ fkind = "Select" /\ fstep = "evaluate" /\ fI = Len(exprs)
    /\ srcIndexed' = srcIndexed \cup {selectedClip[p] : p \in 1..Len(exprs)}
    /\ fstep' = "requested"
    /\ UNCHANGED <<fkind, frameN, numSrc, exprs, fI, selectedClip, vals, outProps>>
    /\ UNCHANGED exceptFrameVars

\* The second arAllFramesReady: getFrameFilter of
\* d->srcNodes[rd->selectedClip[i]] and the new frame.
SelectFetch ==
    /\ fkind = "Select" /\ fstep = "requested"
    /\ srcIndexed' = srcIndexed \cup {selectedClip[p] : p \in 1..Len(exprs)}
    /\ fstep' = "done"
    /\ UNCHANGED <<fkind, frameN, numSrc, exprs, fI, selectedClip, vals, outProps>>
    /\ UNCHANGED exceptFrameVars

\* propExprGetFrame: the first loop, vals.push_back(x).
PropEvaluate ==
    /\ fkind = "PropExpr" /\ fstep = "evaluate"
    /\ LET k == ExprIndex(frameN, Len(exprs)) + 1
       IN  vals' = <<[used |-> k, x |-> CaughtResult(exprs[k].res)]>>
    /\ fstep' = "update"
    /\ UNCHANGED <<fkind, frameN, numSrc, exprs, fI, selectedClip, srcIndexed,
                   outProps>>
    /\ UNCHANGED exceptFrameVars

\* The second loop: propDeleteKey, and propSetInt or propSetFloat with
\* paAppend when the ops are not empty.
PropUpdate ==
    /\ fkind = "PropExpr" /\ fstep = "update"
    /\ LET k == ExprIndex(frameN, Len(exprs)) + 1
       IN  IF exprs[k].size > 0
           THEN \E pv \in PropValues(vals[1].x) : outProps' = <<pv>>
           ELSE outProps' = <<>>
    /\ fstep' = "done"
    /\ UNCHANGED <<fkind, frameN, numSrc, exprs, fI, selectedClip, srcIndexed, vals>>
    /\ UNCHANGED exceptFrameVars

NextFrame ==
    \/ SelectEvaluate
    \/ SelectRequest
    \/ SelectFetch
    \/ PropEvaluate
    \/ PropUpdate

SpecFrame == InitFrame /\ [][NextFrame]_allVars

-----------------------------------------------------------------------------
(* Filter creations: Compiler construction and compile() against exprCache. *)
(* A routine is its serial number; 0 is the default-constructed Compiled.   *)
(* std::unordered_map is not synchronised, so each of its operations is an  *)
(* interval from Begin to End.                                              *)

\* The arguments of the Compiler constructor that reach the key.
Requests ==
    [expr : {"x", "+"}, numInputs : {1}, opt : {0, 1}, boundary : {0, 1, 2},
     vo : {"Gray8"}, vi : {<<"Gray8">>}]

NoRequest == [expr |-> "", numInputs |-> 0, opt |-> 0, boundary |-> 0,
              vo |-> "", vi |-> <<>>]

\* Context::key as Context::key but printing the boundary argument itself.
KeyOfBoundary(r) ==
    <<r.numInputs, r.opt, r.boundary, r.expr, r.vo, r.vi>>

\* Context::key: mirror was initialised as !!mirror.
Key(r) ==
    <<r.numInputs, r.opt, r.boundary # 0, r.expr, r.vo, r.vi>>

\* The expressions buildOneIter rejects: "+" finds no operands.
CompileThrows(r) == r.expr = "+"

InMapOp == {"in_find", "in_index", "in_insert"}

\* The threads inside a map operation other than t.
OthersIn(t, which) == {u \in DOMAIN pc \ {t} : pc[u] \in which}

\* exprCache with key k bound to routine v, a present k included.
Assigned(cache, k, v) ==
    [j \in DOMAIN cache \cup {k} |-> IF j = k THEN v ELSE cache[j]]

\* exprCache with key k bound to routine v unless k is present (insert and
\* operator[] never overwrite).
Inserted(cache, k, v) ==
    IF k \in DOMAIN cache THEN cache
    ELSE [j \in DOMAIN cache \cup {k} |-> IF j = k THEN v ELSE cache[j]]

\* A data race on the map is undefined: the process may die.
Crash ==
    /\ pc' = [u \in DOMAIN pc |-> "crashed"]
    /\ UNCHANGED <<exprCache, req, cached, built, routines, budget, returned>>
    /\ raced' = {}

\* exprCreate constructs a Compiler: Context's constructor enters
\* exprCache.find(key()).
ContextFindBegin(t) ==
    /\ pc[t] = "idle" /\ budget > 0
    /\ \E r \in Requests : req' = [req EXCEPT ![t] = r]
    /\ budget' = budget - 1
    /\ cached' = [cached EXCEPT ![t] = FALSE]
    /\ pc' = [pc EXCEPT ![t] = "in_find"]
    /\ raced' = IF OthersIn(t, {"in_insert"}) # {} THEN raced \cup {t} ELSE raced
    /\ UNCHANGED <<exprCache, built, routines, returned>>
    /\ UNCHANGED exceptCacheVars

\* find returns: cached = (iter != end).
ContextFindEnd(t) ==
    /\ pc[t] = "in_find"
    /\ \/ /\ cached' = [cached EXCEPT ![t] = Key(req[t]) \in DOMAIN exprCache]
          /\ pc' = [pc EXCEPT ![t] = "compile"]
          /\ raced' = raced \ {t}
          /\ UNCHANGED <<exprCache, req, built, routines, budget, returned>>
       \/ /\ t \in raced
          /\ \E b \in BOOLEAN : cached' = [cached EXCEPT ![t] = b]
          /\ pc' = [pc EXCEPT ![t] = "compile"]
          /\ raced' = raced \ {t}
          /\ UNCHANGED <<exprCache, req, built, routines, budget, returned>>
       \/ t \in raced /\ Crash
    /\ UNCHANGED exceptCacheVars

\* compile() with ctx.cached: enters exprCache[key()].
CompileCached(t) ==
    /\ pc[t] = "compile" /\ cached[t]
    /\ pc' = [pc EXCEPT ![t] = "in_index"]
    /\ raced' = IF OthersIn(t, {"in_insert"}) # {} THEN raced \cup {t} ELSE raced
    /\ UNCHANGED <<exprCache, req, cached, built, routines, budget, returned>>
    /\ UNCHANGED exceptCacheVars

\* operator[] returns the stored Compiled, default-constructing a missing one.
GetCachedEnd(t) ==
    /\ pc[t] = "in_index"
    /\ \/ LET k == Key(req[t])
              c == Inserted(exprCache, k, 0)
          IN  /\ exprCache' = c
              /\ returned' = Append(returned,
                                    [req |-> req[t], routine |-> c[k], compiled |-> FALSE])
              /\ pc' = [pc EXCEPT ![t] = "idle"]
              /\ raced' = raced \ {t}
              /\ UNCHANGED <<req, cached, built, routines, budget>>
       \/ t \in raced /\ Crash
    /\ UNCHANGED exceptCacheVars

\* compile() without ctx.cached: the pipeline runs; a throw ends the
\* creation, otherwise mod.acquire makes a routine and insert is entered.
CompileBuild(t) ==
    /\ pc[t] = "compile" /\ ~cached[t]
    /\ IF CompileThrows(req[t])
       THEN /\ pc' = [pc EXCEPT ![t] = "idle"]
            /\ UNCHANGED <<built, routines, raced>>
       ELSE /\ routines' = routines + 1
            /\ built' = [built EXCEPT ![t] = routines + 1]
            /\ pc' = [pc EXCEPT ![t] = "in_insert"]
            /\ raced' = IF OthersIn(t, InMapOp) # {}
                        THEN raced \cup OthersIn(t, InMapOp) \cup {t}
                        ELSE raced
    /\ UNCHANGED <<exprCache, req, cached, budget, returned>>
    /\ UNCHANGED exceptCacheVars

\* exprCache.insert({ctx.key(), r}); return r.
InsertEnd(t) ==
    /\ pc[t] = "in_insert"
    /\ \/ /\ exprCache' = Inserted(exprCache, Key(req[t]), built[t])
          /\ returned' = Append(returned,
                                [req |-> req[t], routine |-> built[t], compiled |-> TRUE])
          /\ pc' = [pc EXCEPT ![t] = "idle"]
          /\ raced' = raced \ {t}
          /\ UNCHANGED <<req, cached, built, routines, budget>>
       \/ t \in raced /\ Crash
    /\ UNCHANGED exceptCacheVars

InitCache(threads, n) ==
    /\ exprCache = <<>>
    /\ pc = [t \in threads |-> "idle"]
    /\ req = [t \in threads |-> NoRequest]
    /\ cached = [t \in threads |-> FALSE]
    /\ built = [t \in threads |-> 0]
    /\ raced = {}
    /\ routines = 0
    /\ budget = n
    /\ returned = <<>>
    /\ ExceptCacheIdle

NextCache ==
    \/ \E t \in DOMAIN pc : ContextFindBegin(t)
    \/ \E t \in DOMAIN pc : ContextFindEnd(t)
    \/ \E t \in DOMAIN pc : CompileCached(t)
    \/ \E t \in DOMAIN pc : GetCachedEnd(t)
    \/ \E t \in DOMAIN pc : CompileBuild(t)
    \/ \E t \in DOMAIN pc : InsertEnd(t)

\* Creations one after the other, on one thread.
InitSeq == InitCache({1}, MaxRequests)
SpecCache == InitSeq /\ [][NextCache]_allVars

\* Creations on two threads.
InitConc == InitCache({1, 2}, MaxConcRequests)
SpecConc == InitConc /\ [][NextCache]_allVars

-----------------------------------------------------------------------------
(* One call of the compiled routine for `x[dx,dy]`: the two loops of        *)
(* compile() around the MEM_LOAD lowering.  A loaded sample is named by the *)
(* column and row it was read from; a column past width - 1 is the row's    *)
(* padding.                                                                 *)

\* #define LANES 8
LANES == 8

\* rr::Clamp(v, lo, hi).
Clamp(v, lo, hi) == NumMin(NumMax(v, lo), hi)

\* IfThenElse(s < 0, -1 - s, IfThenElse(s >= n, 2 * n - 1 - s, s)).
Mirror(s, n) == IF s < 0 THEN -1 - s ELSE IF s >= n THEN 2 * n - 1 - s ELSE s

\* The row the load reads.
LoadRow(op, sy, h) ==
    IF op.y = 0 THEN sy
    ELSE IF op.bc = "Clamped" THEN Clamp(sy + op.y, 0, h - 1)
    ELSE Mirror(sy + Clamp(op.y, -h, h), h)

\* The vector before relativeAccessAdjust: lane j + 1 holds the column it
\* was loaded or gathered from.
LoadedColumns(op, sx, w) ==
    IF op.x = 0 THEN [j \in 1..LANES |-> sx + j - 1]
    ELSE IF op.bc = "Clamped"
    THEN [j \in 1..LANES |-> Clamp(sx + op.x, 0, w - 1) + j - 1]
    ELSE [j \in 1..LANES |-> Mirror(sx + (j - 1) + Clamp(op.x, -w, w), w)]

\* Swizzle(v, select): lane j takes the lane named by the j-th nibble of
\* select, the first lane in the most significant nibble.  A mask is kept as
\* the sequence of its nibbles.
Swizzle(v, select) == [j \in 1..LANES |-> v[select[j] + 1]]

\* LeftSelect without the std::max.
LeftSelectWrapped(i0, dx) == [j \in 1..LANES |-> (i0 + (j - 1) + dx) % LANES]

\* The mask of switch case i0 for op.x < 0.
LeftSelect(i0, dx) == [j \in 1..LANES |-> NumMax(i0 + (j - 1) + dx, 0) % LANES]

\* The mask of switch case i0 for op.x > 0: `last` is the nibble before.
RECURSIVE RightSelect(_, _)
RightSelect(i0, j) ==
    IF j = 0 THEN <<>>
    ELSE LET sel  == RightSelect(i0, j - 1)
             last == IF sel = <<>> THEN 0 ELSE sel[Len(sel)]
         IN  Append(sel, IF (j - 1) + i0 < LANES THEN j - 1 ELSE last)

\* relativeAccessAdjust(x, alignedx, width, op, v).
RelativeAccessAdjust(lx, alignedx, w, op, v) ==
    IF op.x = 0 THEN v
    ELSE IF op.bc # "Clamped" THEN v
    ELSE IF op.x < 0
    THEN IF alignedx % LANES = 0 /\ alignedx < -op.x
         THEN Swizzle(v, LeftSelect(alignedx, op.x))
         ELSE v
    ELSE LET dist == lx + LANES - w
         IN  IF dist > 0
             THEN IF dist \in 1..(LANES - 2)
                  THEN Swizzle(v, RightSelect(dist, LANES))
                  ELSE Swizzle(v, [j \in 1..LANES |-> 0])
             ELSE v

\* The MEM_LOAD case at (state.x, state.y): per lane, the pixel the lane is
\* computed for and the column and row its sample came from.
MemLoad(op, sx, sy, w, h) ==
    LET lx   == IF op.x = 0 THEN sx
                ELSE IF op.bc = "Clamped" THEN Clamp(sx + op.x, 0, w - 1)
                ELSE 0
        cols == RelativeAccessAdjust(lx, sx, w, op, LoadedColumns(op, sx, w))
    IN  [j \in 1..LANES |->
            [px |-> sx + j - 1, py |-> sy, col |-> cols[j], row |-> LoadRow(op, sy, h)]]

InitLoad ==
    /\ width \in 1..MaxWidth
    /\ height \in 1..MaxHeight
    /\ \E dx \in -MaxDx..MaxDx, dy \in -MaxDy..MaxDy, bc \in {"Clamped", "Mirrored"} :
           load = [Op("MEM_LOAD", 0, "") EXCEPT !.x = dx, !.y = dy, !.bc = bc]
    /\ stateY = 0
    /\ stateX = 0
    /\ lanes = <<>>
    /\ ExceptLoadIdle

\* The body of For(x = 0, x < state.width, x += LANES * UNROLL).
InnerIter ==
    /\ stateY < height /\ stateX < width
    /\ lanes' = MemLoad(load, stateX, stateY, width, height)
    /\ stateX' = stateX + LANES
    /\ UNCHANGED <<width, height, load, stateY>>
    /\ UNCHANGED exceptLoadVars

\* The inner loop ends: y++ of For(y = 0, y < state.height, y++).
NextRow ==
    /\ stateY < height /\ stateX >= width
    /\ stateY' = stateY + 1
    /\ stateX' = 0
    /\ UNCHANGED <<width, height, load, lanes>>
    /\ UNCHANGED exceptLoadVars

NextLoad == InnerIter \/ NextRow

SpecLoad == InitLoad /\ [][NextLoad]_allVars

-----------------------------------------------------------------------------
(* One call of the compiled routine, as compile() emits it: the loop over   *)
(* the rows around the loop over the vectors of a row, buildOneIter storing *)
(* one vector of LANES samples at (state.x, state.y), then Return().        *)

\* #define UNROLL 1
UNROLL == 1

\* The step of the inner loop without the vector width.
NextXUnrollOnly(x) == x + UNROLL

\* x += LANES * UNROLL.
NextX(x) == x + LANES * UNROLL

\* The samples one store of a vector at (y, x) writes.
StoredBy(v) == {<<v[1], v[2] + l>> : l \in 0..(LANES - 1)}

InitRoutine ==
    /\ rWidth \in 0..MaxRoutineWidth
    /\ rHeight \in 0..MaxRoutineHeight
    /\ rY = 0
    /\ rX = 0
    /\ visits = <<>>
    /\ rpc = "loop"
    /\ ExceptRoutineIdle

\* The body of the inner loop: UNROLL times buildOneIter, then the step.
RoutineIter ==
    /\ rpc = "loop" /\ rY < rHeight /\ rX < rWidth
    /\ visits' = visits \o [k \in 1..UNROLL |-> <<rY, rX + (k - 1) * LANES>>]
    /\ rX' = NextX(rX)
    /\ UNCHANGED <<rWidth, rHeight, rY, rpc>>
    /\ UNCHANGED exceptRoutineVars

\* The inner loop ends: y++, and x = 0 on entering it again.
RoutineNextRow ==
    /\ rpc = "loop" /\ rY < rHeight /\ rX >= rWidth
    /\ rY' = rY + 1
    /\ rX' = 0
    /\ UNCHANGED <<rWidth, rHeight, visits, rpc>>
    /\ UNCHANGED exceptRoutineVars

\* The outer loop ends: Return().
RoutineReturn ==
    /\ rpc = "loop" /\ rY >= rHeight
    /\ rpc' = "returned"
    /\ UNCHANGED <<rWidth, rHeight, rY, rX, visits>>
    /\ UNCHANGED exceptRoutineVars

NextRoutine == RoutineIter \/ RoutineNextRow \/ RoutineReturn

\* The routine is a plain machine-code loop: it runs while it can.
SpecRoutine == InitRoutine /\ [][NextRoutine]_allVars /\ WF_allVars(NextRoutine)

-----------------------------------------------------------------------------
(* The getFrame callbacks of exprGetFrame, selectGetFrame and               *)
(* propExprGetFrame as the host drives them: arInitial, arAllFramesReady    *)
(* and, for Select, the second arAllFramesReady.  The filters are           *)
(* fmParallel: the host runs the callbacks of different frames, each with   *)
(* its own frame context and its own *frameData, in any interleaving.       *)

\* *frameData == nullptr; a set pointer is the tuple of what it points to.
NullPtr == <<>>

\* Two frame contexts in flight; context c is the request of frame c - 1.
Contexts == {1, 2}
FrameOf(c) == c - 1

\* vsapi->requestFrameFilter(n, node, frameCtx).
Request(kind, idx, n) == [kind |-> kind, idx |-> idx, n |-> n]

\* The reference vsapi->getFrameFilter(n, node, frameCtx) returns.
Ref(kind, idx, n) == [kind |-> kind, idx |-> idx, n |-> n, frees |-> 0, stale |-> FALSE]

\* The requests of the input nodes, in the order of the loop.
RequestInputs(n) == [k \in 1..hNodes |-> Request("in", k - 1, n)]

\* The references of the input nodes.
GetInputs(n) == [k \in 1..hNodes |-> Ref("in", k - 1, n)]

\* Reading through the references `ids`: stale when freed before.
Use(rs, ids) ==
    [k \in DOMAIN rs |->
        IF k \in ids /\ rs[k].frees > 0 THEN [rs[k] EXCEPT !.stale = TRUE] ELSE rs[k]]

\* vsapi->freeFrame on the first of the references `ids` only.
FreeFirstFrame(rs, ids) ==
    [k \in DOMAIN rs |->
        IF k \in ids /\ \A j \in ids : k <= j
        THEN [rs[k] EXCEPT !.frees = @ + 1] ELSE rs[k]]

\* vsapi->freeFrame on each of the references `ids`.
FreeFrames(rs, ids) ==
    [k \in DOMAIN rs |-> IF k \in ids THEN [rs[k] EXCEPT !.frees = @ + 1] ELSE rs[k]]

\* The loop over the planes of the second phase with no test of
\* `requested`.
RequestEverySelected(sel, planes, n) ==
    [p \in 1..planes |-> Request("src", sel[p], n)]

\* The second phase's loop over the planes: d->srcNodes[sel] is requested
\* unless an earlier plane selected it.
RECURSIVE RequestSelected(_, _, _)
RequestSelected(sel, planes, n) ==
    IF planes = 0 THEN <<>>
    ELSE LET before    == RequestSelected(sel, planes - 1, n)
             requested == \E j \in 1..(planes - 1) : sel[j] = sel[planes]
         IN  IF requested THEN before
             ELSE Append(before, Request("src", sel[planes], n))

\* The references the third phase gets: one per plane.
GetSelected(sel, planes, n) == [p \in 1..planes |-> Ref("src", sel[p], n)]

InitHost ==
    /\ hfilter \in {"Expr", "Select", "PropExpr"}
    /\ hPlanes \in {1, 3}
    /\ hNodes \in 1..MaxHostNodes
    /\ IF hfilter = "Select" THEN hSrc \in 1..MaxHostSrc ELSE hSrc = 0
    /\ written = {}
    /\ hstep = [c \in Contexts |-> "arInitial"]
    /\ frameData = [c \in Contexts |-> NullPtr]
    /\ rd = [c \in Contexts |-> <<>>]
    /\ requests = [c \in Contexts |-> <<>>]
    /\ refs = [c \in Contexts |-> <<>>]
    /\ hdst = [c \in Contexts |-> "none"]
    /\ ExceptHostIdle

\* arInitial: the input nodes (Select: the prop nodes) are requested.
HostInitial(c) ==
    /\ hstep[c] = "arInitial"
    /\ requests' = [requests EXCEPT ![c] = @ \o RequestInputs(FrameOf(c))]
    /\ hstep' = [hstep EXCEPT ![c] = "arAllFramesReady"]
    /\ UNCHANGED <<hfilter, hPlanes, hNodes, hSrc, written, frameData, rd, refs, hdst>>
    /\ UNCHANGED exceptHostVars

\* arAllFramesReady (Select: with *frameData null): getFrameFilter of every
\* input node.
HostGet(c) ==
    /\ hstep[c] = "arAllFramesReady" /\ frameData[c] = NullPtr
    /\ refs' = [refs EXCEPT ![c] = @ \o GetInputs(FrameOf(c))]
    /\ hstep' = [hstep EXCEPT ![c] = "got"]
    /\ UNCHANGED <<hfilter, hPlanes, hNodes, hSrc, written, frameData, rd, requests,
                   hdst>>
    /\ UNCHANGED exceptHostVars

\* The work on the input frames: newVideoFrame2 and the routine of every
\* plane (Expr), newVideoFrame2 and the expressions (PropExpr), the
\* expressions of the planes and rd->selectedClip (Select).
HostProcess(c) ==
    /\ hstep[c] = "got"
    /\ refs' = [refs EXCEPT ![c] = Use(@, DOMAIN @)]
    /\ IF hfilter = "Select"
       THEN \E sel \in [1..hPlanes -> 0..(hSrc - 1)] :
                rd' = [rd EXCEPT ![c] = [p \in 1..3 |-> IF p <= hPlanes THEN sel[p] ELSE 0]]
       ELSE UNCHANGED rd
    /\ hstep' = [hstep EXCEPT ![c] = "processed"]
    /\ UNCHANGED <<hfilter, hPlanes, hNodes, hSrc, written, frameData, requests, hdst>>
    /\ UNCHANGED exceptHostVars

\* The freeFrame loop over the input frames, and return dst (Expr,
\* PropExpr).
HostFree(c) ==
    /\ hstep[c] = "processed"
    /\ refs' = [refs EXCEPT ![c] = FreeFrames(@, DOMAIN @)]
    /\ IF hfilter = "Select"
       THEN /\ hstep' = [hstep EXCEPT ![c] = "freed"]
            /\ UNCHANGED hdst
       ELSE /\ hstep' = [hstep EXCEPT ![c] = "returned"]
            /\ hdst' = [hdst EXCEPT ![c] = "dst"]
    /\ UNCHANGED <<hfilter, hPlanes, hNodes, hSrc, written, frameData, rd, requests>>
    /\ UNCHANGED exceptHostVars

\* Select, the end of the second phase: the selected source clips are
\* requested and *frameData = rd.release().
SelectSecondEnd(c) ==
    /\ hstep[c] = "freed"
    /\ requests' = [requests EXCEPT
                       ![c] = @ \o RequestSelected(rd[c], hPlanes, FrameOf(c))]
    /\ frameData' = [frameData EXCEPT ![c] = <<rd[c]>>]
    /\ hstep' = [hstep EXCEPT ![c] = "arAllFramesReady"]
    /\ UNCHANGED <<hfilter, hPlanes, hNodes, hSrc, written, rd, refs, hdst>>
    /\ UNCHANGED exceptHostVars

\* Select, arAllFramesReady with *frameData set: rd takes it over,
\* *frameData = nullptr, and every plane's source frame is fetched.
SelectThird(c) ==
    /\ hstep[c] = "arAllFramesReady" /\ frameData[c] # NullPtr
    /\ frameData' = [frameData EXCEPT ![c] = NullPtr]
    /\ refs' = [refs EXCEPT ![c] = @ \o GetSelected(frameData[c][1], hPlanes, FrameOf(c))]
    /\ hstep' = [hstep EXCEPT ![c] = "fetched"]
    /\ UNCHANGED <<hfilter, hPlanes, hNodes, hSrc, written, rd, requests, hdst>>
    /\ UNCHANGED exceptHostVars

\* Select: newVideoFrame2 on srcf, the freeFrame loop over the planes and
\* return dst.
SelectReturn(c) ==
    /\ hstep[c] = "fetched"
    /\ LET srcf == {k \in DOMAIN refs[c] : refs[c][k].kind = "src"}
       IN  refs' = [refs EXCEPT ![c] = FreeFrames(Use(@, srcf), srcf)]
    /\ hdst' = [hdst EXCEPT ![c] = "dst"]
    /\ hstep' = [hstep EXCEPT ![c] = "returned"]
    /\ UNCHANGED <<hfilter, hPlanes, hNodes, hSrc, written, frameData, rd, requests>>
    /\ UNCHANGED exceptHostVars

NextHost ==
    \/ \E c \in Contexts : HostInitial(c)
    \/ \E c \in Contexts : HostGet(c)
    \/ \E c \in Contexts : HostProcess(c)
    \/ \E c \in Contexts : HostFree(c)
    \/ \E c \in Contexts : SelectSecondEnd(c)
    \/ \E c \in Contexts : SelectThird(c)
    \/ \E c \in Contexts : SelectReturn(c)

\* The host delivers every activation of a frame context.
SpecHost == InitHost /\ [][NextHost]_allVars /\ WF_allVars(NextHost)

-----------------------------------------------------------------------------
(* The SORT case of buildOneIter past its validity check (op.imm.u <=       *)
(* stack.size()): buildSortNet(op.imm.u), then the loop over the            *)
(* comparators, each calling at(cmp.first) and at(cmp.second).              *)

InitNet ==
    /\ snN \in 0..MaxSortN
    /\ snSize \in snN..(snN + MaxBelow)
    /\ snNet = <<>>
    /\ snI = 0
    /\ touched = {}
    /\ snpc = "call"
    /\ ExceptNetIdle

\* const auto &sn = buildSortNet(op.imm.u).
SortNetBuild ==
    /\ snpc = "call"
    /\ snNet' \in BuildSortNet(snN)
    /\ snpc' = "loop"
    /\ UNCHANGED <<snN, snSize, snI, touched>>
    /\ UNCHANGED exceptNetVars

\* One comparator: at(i) is stack.at(stack.size() - 1 - i).
SortNetCompare ==
    /\ snpc = "loop" /\ snI < Len(snNet)
    /\ touched' = touched \cup {snSize - 1 - snNet[snI + 1][1], snSize - 1 - snNet[snI + 1][2]}
    /\ snI' = snI + 1
    /\ UNCHANGED <<snN, snSize, snNet, snpc>>
    /\ UNCHANGED exceptNetVars

\* The loop over the comparators ends.
SortNetEnd ==
    /\ snpc = "loop" /\ snI = Len(snNet)
    /\ snpc' = "done"
    /\ UNCHANGED <<snN, snSize, snNet, snI, touched>>
    /\ UNCHANGED exceptNetVars

NextNet == SortNetBuild \/ SortNetCompare \/ SortNetEnd

\* The lowering is straight-line host code: it runs while it can.
SpecNet == InitNet /\ [][NextNet]_allVars /\ WF_allVars(NextNet)

-----------------------------------------------------------------------------
(* propExprCreate and the host resources it acquires: the input nodes       *)
(* (propGetNode), the dict function (propGetFunc) and the two maps          *)
(* (createMap).                                                             *)

\* What a key of the dict's result can hold: expressions that validate, a
\* value that is neither int, float nor data, an expression decodeToken or
\* interpret rejects.
KeyKinds == {"valid", "invalid_type", "invalid_expr"}

\* The results of callFunc: an error set in out_map, or the keys.
DictResults == {<<"error">>} \cup {<<"keys", ks>> : ks \in SeqsUpTo(KeyKinds, MaxKeys)}

\* One more call of the free function of resource r.
Freed(frees, r) == [frees EXCEPT ![r] = @ + 1]

InitProp ==
    /\ pNodes \in 1..MaxPropNodes
    /\ pDict \in DictResults
    /\ pI = 0
    /\ pFrees = [r \in {"func", "in_map", "out_map"} |-> 0]
    /\ pNodeFrees = [k \in 1..pNodes |-> 0]
    /\ pOwned = FALSE
    /\ pError = ""
    /\ pstep = "callFunc"
    /\ ExceptPropIdle

\* vsapi->callFunc, and the throw when out_map holds an error.
PropCallFunc ==
    /\ pstep = "callFunc"
    /\ IF pDict[1] = "error"
       THEN pstep' = "inner_catch" /\ pError' = "dict evaluation failed: "
       ELSE pstep' = "keys" /\ UNCHANGED pError
    /\ UNCHANGED <<pNodes, pDict, pI, pFrees, pNodeFrees, pOwned>>
    /\ UNCHANGED exceptPropVars

\* One iteration of the loop over the keys: the switch on the type, then
\* decodeToken and interpret on every expression.
PropKey ==
    /\ pstep = "keys" /\ pI < Len(pDict[2])
    /\ LET kind == pDict[2][pI + 1]
       IN  CASE kind = "valid" ->
                  pI' = pI + 1 /\ UNCHANGED <<pstep, pError>>
             [] kind = "invalid_type" ->
                  /\ pstep' = "inner_catch"
                  /\ pError' = "invalid type for key "
                  /\ UNCHANGED pI
             [] kind = "invalid_expr" ->
                  /\ pstep' = "inner_catch"
                  /\ pError' = "unable to use pixel values in PropExpr"
                  /\ UNCHANGED pI
    /\ UNCHANGED <<pNodes, pDict, pFrees, pNodeFrees, pOwned>>
    /\ UNCHANGED exceptPropVars

\* The loop ends: freeMap(out_map), freeMap(in_map).
PropKeysEnd ==
    /\ pstep = "keys" /\ pI = Len(pDict[2])
    /\ pFrees' = Freed(Freed(pFrees, "out_map"), "in_map")
    /\ pstep' = "freeFunc"
    /\ UNCHANGED <<pNodes, pDict, pI, pNodeFrees, pOwned, pError>>
    /\ UNCHANGED exceptPropVars

\* The inner catch: freeMap(out_map), freeMap(in_map), throw e.
PropInnerCatch ==
    /\ pstep = "inner_catch"
    /\ pFrees' = Freed(Freed(pFrees, "out_map"), "in_map")
    /\ pstep' = "outer_catch"
    /\ UNCHANGED <<pNodes, pDict, pI, pNodeFrees, pOwned, pError>>
    /\ UNCHANGED exceptPropVars

\* After the inner try: vsapi->freeFunc(func).
PropFreeFunc ==
    /\ pstep = "freeFunc"
    /\ pFrees' = Freed(pFrees, "func")
    /\ pstep' = "createFilter"
    /\ UNCHANGED <<pNodes, pDict, pI, pNodeFrees, pOwned, pError>>
    /\ UNCHANGED exceptPropVars

\* The outer catch: freeNode on every node, setError, return.
PropOuterCatch ==
    /\ pstep = "outer_catch"
    /\ pNodeFrees' = [k \in DOMAIN pNodeFrees |-> pNodeFrees[k] + 1]
    /\ pError' = "PropExpr: " \o pError
    /\ pstep' = "error"
    /\ UNCHANGED <<pNodes, pDict, pI, pFrees, pOwned>>
    /\ UNCHANGED exceptPropVars

\* vsapi->createFilter(..., d.release(), core): propExprFree frees the nodes
\* with the filter.
PropCreateFilter ==
    /\ pstep = "createFilter"
    /\ pOwned' = TRUE
    /\ pstep' = "created"
    /\ UNCHANGED <<pNodes, pDict, pI, pFrees, pNodeFrees, pError>>
    /\ UNCHANGED exceptPropVars

NextProp ==
    \/ PropCallFunc
    \/ PropKey
    \/ PropKeysEnd
    \/ PropInnerCatch
    \/ PropFreeFunc
    \/ PropOuterCatch
    \/ PropCreateFilter

SpecProp == InitProp /\ [][NextProp]_allVars

-----------------------------------------------------------------------------
(* Arithmetic on numbers wider than the checker's integers.  A number is    *)
(* hi * 2^16 + lo with 0 <= lo < 2^16; the expressions drawn below stay     *)
(* under 2^40 in magnitude.                                                 *)

W(hi, lo) == [hi |-> hi, lo |-> lo]
WNorm(h, l) == W(h + (l \div 65536), l % 65536)
WOfInt(n) == WNorm(0, n)
WAdd(a, b) == WNorm(a.hi + b.hi, a.lo + b.lo)
WNeg(a) == WNorm(-a.hi, -a.lo)
WSub(a, b) == WAdd(a, WNeg(b))
WMul(a, b) ==
    WNorm(a.hi * b.hi * 65536 + a.hi * b.lo + a.lo * b.hi + ((a.lo * b.lo) \div 65536),
          (a.lo * b.lo) % 65536)

\* The number of bits of n >= 0.
RECURSIVE BitLen(_)
BitLen(n) == IF n = 0 THEN 0 ELSE 1 + BitLen(n \div 2)

\* Two's complement int arithmetic: the number modulo 2^32, in
\* [-2^31, 2^31).
WrapI(a) == W(((a.hi + 32768) % 65536) - 32768, a.lo)

\* A non-negative number rounded to the 24 significant bits of a float, ties
\* to even.
RoundMag(a) ==
    LET bits == IF a.hi > 0 THEN 16 + BitLen(a.hi) ELSE BitLen(a.lo)
        s    == bits - 24
        q    == a.hi * (2 ^ (16 - s)) + (a.lo \div (2 ^ s))
        r    == a.lo % (2 ^ s)
        half == 2 ^ (s - 1)
        q2   == IF r > half \/ (r = half /\ q % 2 = 1) THEN q + 1 ELSE q
    IN  IF bits <= 24 THEN a
        ELSE W(q2 \div (2 ^ (16 - s)), (q2 % (2 ^ (16 - s))) * (2 ^ s))

\* The float nearest to a number: float arithmetic is the exact result
\* rounded, and FloatV(IntV) rounds the same way.
RoundF(a) == IF a.hi < 0 THEN WNeg(RoundMag(WNeg(a))) ELSE RoundMag(a)

\* The exact result of + - *.
Exact(type, l, r) ==
    CASE type = "ADD" -> WAdd(l, r)
      [] type = "SUB" -> WSub(l, r)
      [] type = "MUL" -> WMul(l, r)

-----------------------------------------------------------------------------
(* One expression run by the JIT's routine (force_float mode) and by the    *)
(* interpreter, for one pixel.                                              *)

\* The sample of clip x at the pixel.
Sample == 200

\* ensureFloat of a Value.
EnsureFloat(v) == IF v.tag = "f" THEN v.v ELSE RoundF(v.v)

\* BINARYOP(op, false): float arithmetic if an operand is float-tagged, int
\* arithmetic otherwise.
JitBinaryOp(type, l, r) ==
    IF l.tag = "f" \/ r.tag = "f"
    THEN Val("f", RoundF(Exact(type, EnsureFloat(l), EnsureFloat(r))))
    ELSE Val("i", WrapI(Exact(type, l.v, r.v)))

\* BINARYOP(op) of the interpreter: float arithmetic.
InterpBinaryOp(type, l, r) == RoundF(Exact(type, l, r))

\* Integer literals and the names of clips.
ArithTerms ==
    {Op("CONSTANTI", n, "") : n \in {1, 3, 32768, 65536}} \cup {Op("MEM_LOAD", 0, "")}

ArithBinary == {"ADD", "SUB", "MUL"}

\* t0 t1 op1 t2 op2 ...: at most one of the ops a multiplication.
ArithProgs ==
    UNION {{[k \in 1..(2 * n + 1) |->
                IF k = 1 THEN ts[1]
                ELSE IF k % 2 = 0 THEN ts[(k \div 2) + 1]
                ELSE Op(os[k \div 2], 0, "")]
            : ts \in [1..(n + 1) -> ArithTerms],
              os \in {f \in [1..n -> ArithBinary] :
                         Cardinality({j \in 1..n : f[j] = "MUL"}) <= 1}}
           : n \in 1..MaxArithOps}

InitArith ==
    /\ arithOps \in ArithProgs
    /\ arithI = 0
    /\ jitVals = <<>>
    /\ fltVals = <<>>
    /\ ExceptArithIdle

\* CONSTANTI: the JIT pushes Value(int), the interpreter the float.
ArithConstant ==
    /\ arithI < Len(arithOps) /\ arithOps[arithI + 1].type = "CONSTANTI"
    /\ jitVals' = Append(jitVals, Val("i", WOfInt(arithOps[arithI + 1].imm)))
    /\ fltVals' = Append(fltVals, RoundF(WOfInt(arithOps[arithI + 1].imm)))
    /\ arithI' = arithI + 1
    /\ UNCHANGED arithOps
    /\ UNCHANGED exceptArithVars

\* MEM_LOAD under forceFloat pushes FloatV(v); pixelGet returns the sample.
ArithLoad ==
    /\ arithI < Len(arithOps) /\ arithOps[arithI + 1].type = "MEM_LOAD"
    /\ jitVals' = Append(jitVals, Val("f", RoundF(WOfInt(Sample))))
    /\ fltVals' = Append(fltVals, RoundF(WOfInt(Sample)))
    /\ arithI' = arithI + 1
    /\ UNCHANGED arithOps
    /\ UNCHANGED exceptArithVars

\* ADD, SUB, MUL: LOAD2(l, r) pops r then l.
ArithBinaryOp ==
    /\ arithI < Len(arithOps) /\ arithOps[arithI + 1].type \in ArithBinary
    /\ LET type == arithOps[arithI + 1].type
           n    == Len(jitVals)
       IN  /\ jitVals' = Append(SubSeq(jitVals, 1, n - 2),
                                JitBinaryOp(type, jitVals[n - 1], jitVals[n]))
           /\ fltVals' = Append(SubSeq(fltVals, 1, n - 2),
                                InterpBinaryOp(type, fltVals[n - 1], fltVals[n]))
    /\ arithI' = arithI + 1
    /\ UNCHANGED arithOps
    /\ UNCHANGED exceptArithVars

NextArith == ArithConstant \/ ArithLoad \/ ArithBinaryOp

SpecArith == InitArith /\ [][NextArith]_allVars

-----------------------------------------------------------------------------
(* Properties of the evaluation.                                            *)

\* trace[j] is what ops[j] did: every executed op appends one entry.
Executed == DOMAIN trace

\* C1: an op that pops k operands is executed only on a stack of at least k
\* values: no op pops below the bottom of the stack (an underflow ends the
\* evaluation with an error instead).
C1_ArityRespected ==
    \A j \in Executed :
        ops[j].type \notin {"DUP", "SWAP", "DROP", "SORT"}
            => Len(trace[j].consumed) <= trace[j].size

\* C2: DupN and SwapN are executed only when N < stack size, DropN and SortN
\* only when N <= stack size, and no slot below the bottom is accessed.
C2_StackHelperBounds ==
    \A j \in Executed :
        /\ ops[j].type \in {"DUP", "SWAP"} => ops[j].imm < trace[j].size
        /\ ops[j].type \in {"DROP", "SORT"} => ops[j].imm <= trace[j].size
        /\ ops[j].type \in {"DUP", "SWAP", "DROP", "SORT"} => trace[j].low >= 1

\* C3: an op sequence is accepted only with exactly one value left after the
\* last op; none left is the empty-expression error, more than one the
\* unconsumed-values error.
C3_FinalDepth ==
    /\ status = "ok" => i = Len(ops) /\ Len(stack) = 1 /\ under = 0
    /\ status = "empty expression" => i = Len(ops) /\ Len(stack) = 0 /\ under = 0
    /\ status = "unconsumed values" => i = Len(ops) /\ (Len(stack) > 1 \/ under > 0)
    /\ (phase = "done" /\ i = Len(ops) /\ status \notin {"crash", "bad_variant_access"})
           => status \in {"ok", "empty expression", "unconsumed values"}

\* C3's case: the JIT accepts a three-op sequence.
C3_Witness == engine = "jit" /\ status = "ok" /\ Len(ops) = 3

\* C4: every clip index used to index the per-clip formats and pointers is
\* below numInputs.
C4_ClipIndexBound == \A c \in viIndexed : c < numInputs

HasEarlierStore(j) ==
    \E m \in 1..(j - 1) : ops[m].type = "VAR_STORE" /\ ops[m].name = ops[j].name

\* The most recent VAR_STORE of ops[j]'s name before j.
LastStore(j) ==
    CHOOSE m \in 1..(j - 1) :
        /\ ops[m].type = "VAR_STORE" /\ ops[m].name = ops[j].name
        /\ \A k \in (m + 1)..(j - 1) :
               ~(ops[k].type = "VAR_STORE" /\ ops[k].name = ops[j].name)

BadLoads == {j \in DOMAIN ops : ops[j].type = "VAR_LOAD" /\ ~HasEarlierStore(j)}

\* C5: a VarLoad is executed only after a VarStore of the same name, and it
\* pushes the value popped by the most recent one; a load with no earlier
\* store fails the compilation before any op is walked, and ends the
\* interpretation with the used-before-assignment error.
C5_VarLoadAfterStore ==
    /\ \A j \in Executed :
           ops[j].type = "VAR_LOAD"
               => /\ HasEarlierStore(j)
                  /\ trace[j].pushed = <<trace[LastStore(j)].consumed[1]>>
    /\ (engine = "jit" /\ phase # "start" /\ BadLoads # {})
           => status \in {"uninitialized variable", "undefined clip"} /\ i = 0
    /\ (engine = "interp" /\ phase = "done" /\ status # "crash" /\ i < Len(ops)
            /\ i + 1 \in BadLoads)
           => status = "used before assignment"

\* C5's case: a load executed after two stores of different values.
C5_Witness ==
    \E j \in Executed :
        /\ ops[j].type = "VAR_LOAD"
        /\ \E m \in 1..(j - 1) :
               /\ m # LastStore(j)
               /\ ops[m].type = "VAR_STORE" /\ ops[m].name = ops[j].name
               /\ trace[m].consumed # trace[LastStore(j)].consumed

-----------------------------------------------------------------------------
(* Properties of SORT.                                                      *)

\* The number of slots among the top n of stk that hold v.
Count(stk, n, v) == Cardinality({k \in (Len(stk) - n + 1)..Len(stk) : stk[k] = v})

\* after is before with its top n slots permuted into non-increasing order
\* from deep to top, the slots below untouched.
SortedTop(before, after, n) ==
    /\ Len(after) = Len(before)
    /\ \A k \in 1..(Len(before) - n) : after[k] = before[k]
    /\ \A k \in (Len(before) - n + 1)..Len(before) :
           Count(after, n, before[k]) = Count(before, n, before[k])
    /\ \A k \in (Len(before) - n + 1)..(Len(before) - 1) : after[k].v >= after[k + 1].v

-----------------------------------------------------------------------------
(* Properties of the store.                                                 *)

\* The result rounded and clamped to [0, 2^bits - 1]; no result drawn here
\* reaches 2^32 - 1.
ClampedResult(bits, r) ==
    LET v == IF r.tag = "f" THEN RoundInt(r.v) ELSE r.v
    IN  IF bits < 32 THEN NumMin(NumMax(v, 0), 2 ^ bits - 1) ELSE NumMax(v, 0)

\* C10: for every integer output depth in 8..16 and 32 and every result, the
\* sample stored is the result clamped to [0, 2^bits - 1]; for 32-bit output
\* the upper bound is 2^32 - 1.
C10_StoreClamped == \A v \in stored : v = ClampedResult(outBits, res)

-----------------------------------------------------------------------------
(* Properties of the cache.                                                 *)

\* The fingerprint of a request: numInputs, option mask, boundary default,
\* expression text, output format, input formats.
Fingerprint(r) ==
    <<r.numInputs, r.opt, IF r.boundary = 0 THEN "Clamped" ELSE "Mirrored", r.expr,
      r.vo, r.vi>>

\* C6: after any sequence of compile requests, requests with the same
\* fingerprint return the same routine: the first compiles and inserts under
\* the key, every later one returns the stored Compiled without recompiling.
C6_CacheIdentity ==
    \A a, b \in DOMAIN returned :
        (a <= b /\ Fingerprint(returned[a].req) = Fingerprint(returned[b].req))
        => /\ returned[a].routine = returned[b].routine
           /\ returned[a].routine # 0
           /\ a < b => ~returned[b].compiled
           /\ Key(returned[a].req) \in DOMAIN exprCache
           /\ exprCache[Key(returned[a].req)] = returned[a].routine

\* A request with boundary = 1 compiled, then one with boundary = 2 hit.
C6_Witness ==
    /\ Len(returned) >= 2
    /\ returned[1].req.boundary = 1 /\ returned[2].req.boundary = 2
    /\ returned[1].req.opt = returned[2].req.opt
    /\ returned[1].compiled /\ ~returned[2].compiled
    /\ returned[1].routine = returned[2].routine

\* C7: the operations on exprCache are serialised: no thread is inside find,
\* operator[] or insert while another thread is inside insert.
C7_Serialised ==
    \A t, u \in DOMAIN pc :
        t # u => ~(pc[t] = "in_insert" /\ pc[u] \in InMapOp)

-----------------------------------------------------------------------------
(* Properties of relative access.                                           *)

\* The lanes of the last iteration that lie in the plane.
InPlane == {j \in DOMAIN lanes : lanes[j].px < width}

\* The reference lookup for Clamped.
RefClamped(c, d, n) == Clamp(c + d, 0, n - 1)

\* C9 as stated: for every (dx, dy, bc) and every pixel of the plane, the
\* sample loaded for the pixel's lane is the reference one: for Clamped,
\* src[clamp(y+dy,0,h-1)][clamp(x+dx,0,w-1)]; for Mirrored, the coordinate
\* reflected about the edge (-1 -> 0, w -> w-1).
C9_BoundaryAsStated ==
    \A j \in InPlane :
        LET l == lanes[j]
        IN  IF load.bc = "Clamped"
            THEN /\ l.col = RefClamped(l.px, load.x, width)
                 /\ l.row = RefClamped(l.py, load.y, height)
            ELSE /\ l.col = Mirror(l.px + load.x, width)
                 /\ l.row = Mirror(l.py + load.y, height)

\* C9 amended: as above, but for Mirrored the offset is first clamped to
\* [-w, w] (resp. [-h, h]) and the coordinate plus that offset is reflected;
\* every sample then comes from inside the plane.
C9_BoundaryOffsetClamped ==
    \A j \in InPlane :
        LET l == lanes[j]
        IN  /\ l.col \in 0..(width - 1) /\ l.row \in 0..(height - 1)
            /\ IF load.bc = "Clamped"
               THEN /\ l.col = RefClamped(l.px, load.x, width)
                    /\ l.row = RefClamped(l.py, load.y, height)
               ELSE /\ l.col = Mirror(l.px + Clamp(load.x, -width, width), width)
                    /\ l.row = Mirror(l.py + Clamp(load.y, -height, height), height)

\* x[-6,0]:m on a 4-wide row: the offset is clamped to -4 and pixel 0 gets
\* column 3, pixel 3 gets column 0.
C9_Witness ==
    /\ load.bc = "Mirrored" /\ load.x = -6 /\ width = 4
    /\ lanes # <<>> /\ lanes[1].px = 0
    /\ lanes[1].col = 3 /\ lanes[4].col = 0

-----------------------------------------------------------------------------
(* Properties of arithmetic.                                                *)

\* C11: for an expression without exp/log/sin/cos/pow, the routine compiled
\* in force_float mode and the interpreter give the same value at the
\* pixel, also when the exact result of integer literals under + - * leaves
\* the signed 32-bit range.
C11_EnginesAgree ==
    (arithI = Len(arithOps) /\ Len(jitVals) = 1)
    => EnsureFloat(jitVals[1]) = fltVals[1]

-----------------------------------------------------------------------------
(* Properties of operand order.                                             *)

\* The number a push op leaves on the stack.
PushedBy(op) ==
    IF op.type = "CONSTANTI" THEN op.imm
    ELSE IF engine = "jit" THEN PixelVal(op.imm) ELSE 0

\* The last op of `... a b OP` has run on a and b.
RanOn2(type) ==
    /\ Len(ops) >= 3 /\ i = Len(ops) /\ Len(trace) = Len(ops)
    /\ ops[Len(ops)].type = type

\* The last op of `... x y z OP` has run on x, y and z.
RanOn3(type) == RanOn2(type) /\ Len(ops) >= 4

\* C12: in `a b OP` the operand pushed first is the left one, in both
\* engines: `a b -` is a - b, `a b <` is a < b, `a b >` is a > b;
\* `x lo hi clamp` is max(min(x, hi), lo); `c t f ?` is t when c > 0 and f
\* otherwise, and leaves one value where there were three.
C12_OperandOrder ==
    LET n   == Len(ops)
        a   == PushedBy(ops[n - 2])
        b   == PushedBy(ops[n - 1])
        x   == PushedBy(ops[n - 3])
        top == stack[Len(stack)].v
    IN  /\ RanOn2("SUB") => top = a - b
        /\ (RanOn2("CMP") /\ ops[n].imm = 1) => top = (IF a < b THEN 1 ELSE 0)
        /\ (RanOn2("CMP") /\ ops[n].imm = 6) => top = (IF a > b THEN 1 ELSE 0)
        /\ RanOn2("SUB") \/ RanOn2("CMP") => Len(stack) = n - 2
        /\ RanOn3("CLAMP") => top = NumMax(NumMin(x, b), a)
        /\ RanOn3("TERNARY") => top = (IF x > 0 THEN a ELSE b)
        /\ RanOn3("CLAMP") \/ RanOn3("TERNARY") => Len(stack) = n - 3
        /\ (RanOn2("SUB") \/ RanOn2("CMP") \/ RanOn3("CLAMP") \/ RanOn3("TERNARY"))
           => \A k \in 1..(Len(stack) - 1) : stack[k].v = PushedBy(ops[k])

\* The JIT has lowered `1 0 2 1 ?`: the condition 0 selects 1, the third
\* operand, and the 1 below is untouched.
C12_Witness ==
    /\ engine = "jit" /\ RanOn3("TERNARY") /\ Len(ops) = 5
    /\ ops[2].imm = 0 /\ ops[3].imm = 2 /\ ops[4].imm = 1
    /\ ops[2].type = "CONSTANTI" /\ ops[3].type = "CONSTANTI"
    /\ stack[2].v = 1 /\ Len(stack) = 2

-----------------------------------------------------------------------------
(* Properties of decoding.                                                  *)

\* The one-letter clip names in the order x, y, z, a, b, ..., w.
LetterOrder ==
    <<120, 121, 122, 97, 98, 99, 100, 101, 102, 103, 104, 105, 106, 107, 108, 109,
      110, 111, 112, 113, 114, 115, 116, 117, 118, 119>>

\* The clip index an op refers to.
ClipOf(op) == IF op.type = "CONST_LOAD" THEN op.imm - LoadConstLast ELSE op.imm

HasClip == token.kind \in {"clip", "prop", "rel", "abs"}

\* C13: the 26 one-letter names map one-to-one onto the clip indices 0..25
\* in the order x, y, z, a, ..., w, and srcK decodes to the op of the
\* one-letter name of clip K, in the plain, .prop, [dx,dy] and [] forms.
C13_ClipNames ==
    (dstep = "decoded" /\ HasClip)
    => /\ decoded.ok
       /\ token.clip.src < 0
          => /\ ClipOf(decoded.op) \in 0..25
             /\ LetterOrder[ClipOf(decoded.op) + 1] = token.clip.letter
       /\ token.clip.src \in 0..25
          => decoded = DecodeToken([token EXCEPT !.clip =
                                       [letter |-> LetterOrder[token.clip.src + 1],
                                        src |-> -1]], extended)

\* src25[-1,1]:m has been decoded: clip 25, the clip of w.
C13_Witness ==
    /\ dstep = "decoded" /\ token.kind = "rel" /\ token.clip.src = 25
    /\ token.flag = ":m"
    /\ decoded.op.imm = 25 /\ decoded.op.type = "MEM_LOAD"

IsArgToken == token.kind = "count" /\ token.text \in ArgPrefixes

ArgTypes == {"ARGMIN", "ARGMAX", "ARGSORT"}

\* C14: argminN, argmaxN and argsortN decode to ARGMIN, ARGMAX and ARGSORT
\* only for an extended caller; Expr's decoding rejects every such token with
\* an error, and no op that Expr's Context takes is one of the three.
C14_ArgOnlyExtended ==
    /\ (IsArgToken /\ dstep \in {"decoded", "pushed"})
       => extended /\ decoded.op.type \in ArgTypes /\ decoded.op.imm = token.n
    /\ (IsArgToken /\ ~extended /\ dstep # "token")
       => dstep = "rejected" /\ ~decoded.ok /\ decoded.err # ""
    /\ (~extended /\ dstep \in {"decoded", "pushed"})
       => decoded.op.type \notin ArgTypes

\* Expr's decoding has rejected argmin2, and Select's has decoded it.
C14_Witness ==
    /\ IsArgToken /\ token.n = 2 /\ token.text = "argmin"
    /\ \/ ~extended /\ dstep = "rejected"
       \/ extended /\ dstep = "pushed" /\ decoded.op.type = "ARGMIN"

\* C15: in Expr, the op of a relative access x[dx,dy]:c is Clamped and of
\* x[dx,dy]:m Mirrored whatever the boundary argument, the op of x[dx,dy] is
\* Clamped for boundary = 0 and Mirrored otherwise, and no op of the
\* Context is Unspecified.
C15_BoundaryDefault ==
    (~extended /\ dstep = "pushed")
    => /\ decoded.op.bc # "Unspecified"
       /\ token.kind = "rel"
          => decoded.op.bc =
                CASE token.flag = ":c" -> "Clamped"
                  [] token.flag = ":m" -> "Mirrored"
                  [] token.flag = "" -> IF mirror = 0 THEN "Clamped" ELSE "Mirrored"

\* x[-1,0]:c went into a Context whose boundary is 2, Clamped.
C15_Witness ==
    /\ ~extended /\ dstep = "pushed" /\ token.kind = "rel" /\ token.flag = ":c"
    /\ mirror = 2 /\ decoded.op.bc = "Clamped"

-----------------------------------------------------------------------------
(* Properties of argminN and argmaxN.                                       *)

\* after is before with its top n slots replaced by the index, counted from
\* the deepest of them, of the first slot holding their minimum (maximum).
ArgResult(before, after, type, n) ==
    LET off == Len(before) - n
    IN  /\ Len(after) = off + 1
        /\ \A k \in 1..off : after[k] = before[k]
        /\ after[off + 1].v \in 0..(n - 1)
        /\ LET idx == after[off + 1].v
               ext == before[off + idx + 1].v
           IN  /\ \A k \in 0..(n - 1) :
                      IF type = "ARGMIN" THEN ext <= before[off + k + 1].v
                      ELSE ext >= before[off + k + 1].v
               /\ \A k \in 0..(idx - 1) : before[off + k + 1].v # ext

\* C16: in the interpreter, an ARGMIN N or ARGMAX N with N >= 1 on a stack
\* of at least N values completes; it takes the top N values off and pushes
\* the zero-based index, from the deepest of the N, of the minimum or
\* maximum, the smallest index among ties, so that the depth changes by
\* 1 - N and the slots below keep their values.
C16_ArgIndex ==
    [][(/\ engine = "interp" /\ i < Len(ops)
        /\ ops[i + 1].type \in {"ARGMIN", "ARGMAX"}
        /\ ops[i + 1].imm >= 1 /\ Len(stack) >= ops[i + 1].imm)
        => /\ status' = "running" /\ i' = i + 1
           /\ Len(stack') - Len(stack) = 1 - ops[i + 1].imm
           /\ ArgResult(stack, stack', ops[i + 1].type, ops[i + 1].imm)]_allVars

\* argmin3 ran on 2 1 0 0: the minimum of 1 0 0 is at the indices 1 and 2,
\* and 1 is on top of the 2.
C16_Witness ==
    /\ engine = "interp" /\ Len(ops) = 5 /\ i = 5 /\ status = "running"
    /\ ops[5] = Op("ARGMIN", 3, "")
    /\ ops[1].imm = 2 /\ ops[2].imm = 1 /\ ops[3].imm = 0 /\ ops[4].imm = 0
    /\ stack = <<Val("f", 2), Val("f", 1)>>

-----------------------------------------------------------------------------
(* Properties of the creation of a filter.                                  *)

\* C17: an Expr created from nexpr >= 1 expressions for P >= nexpr planes
\* uses, for plane i, expression i when i < nexpr and the last one
\* otherwise; the plane is processed, with a routine compiled from that
\* expression, iff the expression is not empty, copied iff it is empty and
\* the output's bit depth and sample type are clip 0's, undefined otherwise.
\* With more expressions than planes the creation ends in an error.
C17_PlaneExpressions ==
    /\ (filter = "Expr" /\ cstep = "created")
       => /\ Len(given) <= numPlanes
          /\ \A p \in 1..numPlanes :
                LET e == IF p <= Len(given) THEN given[p] ELSE given[Len(given)]
                IN  /\ plane[p] = "poProcess" <=> e # <<>>
                    /\ plane[p] = "poProcess" => compiledFor[p] = e
                    /\ plane[p] # "poProcess" => compiledFor[p] = <<>>
                    /\ plane[p] = "poCopy" <=>
                          /\ e = <<>>
                          /\ outFormat.bitsPerSample = inFormat.bitsPerSample
                          /\ outFormat.sampleType = inFormat.sampleType
                    /\ plane[p] \in {"poProcess", "poCopy", "poUndefined"}
    /\ (filter = "Expr" /\ Len(given) > numPlanes /\ cstep # "args")
       => cstep = "error" /\ hostError # ""

\* Expr was created for three planes of 16-bit float output from 16-bit
\* integer clips with "x" and "": plane 0 is processed and the other two,
\* which use the empty expression, are undefined.
C17_Witness ==
    /\ filter = "Expr" /\ cstep = "created" /\ numPlanes = 3 /\ Len(given) = 2
    /\ given[1] = <<TokX>> /\ given[2] = <<>>
    /\ inFormat = Format(16, "stInteger") /\ outFormat = Format(16, "stFloat")
    /\ plane = <<"poProcess", "poUndefined", "poUndefined">>

\* C20: every error raised while an expression is decoded or compiled in
\* exprCreate, selectCreate or propExprCreate ends the creation in the error
\* state: the host error is set with the filter's prefix, the input nodes
\* are released, no filter is created, and no exception leaves the creation
\* function.
C20_ErrorsCaught ==
    /\ cstep # "escaped"
    /\ cstep = "error" => hostError = ErrorPrefix[filter] /\ nodesFreed
    /\ cstep = "created" => hostError = "" /\ ~nodesFreed

-----------------------------------------------------------------------------
(* Properties of the frames of Select and PropExpr.                         *)

\* The result of an expression rounded and clamped into 0 .. size - 1.
RoundedClamped(r, size) ==
    CASE r.kind = "error" -> 0
      [] r.kind = "value" ->
           IF Round(r.h) < 0 THEN 0
           ELSE IF Round(r.h) > size - 1 THEN size - 1 ELSE Round(r.h)
      [] r.kind = "huge" -> size - 1
      [] r.kind = "neghuge" -> 0

\* C18: in a frame of Select, selectedClip[i] of every plane lies in
\* 0 .. numSourceClips - 1; it is the result of the plane's expression
\* rounded and clamped into that range, and 0 when the evaluation raised an
\* error; srcNodes is subscripted within its bounds only.
C18_SelectRoundedClamped ==
    fkind = "Select"
    => /\ \A p \in 1..fI :
              /\ selectedClip[p] \in 0..(numSrc - 1)
              /\ exprs[p].res.kind # "nan"
                 => selectedClip[p] = RoundedClamped(exprs[p].res, numSrc)
       /\ srcIndexed \subseteq 0..(numSrc - 1)

\* C19: in a frame n of PropExpr, the expression of a key with an array of
\* L expressions is the one at index n mod L; the output frame then holds
\* exactly one value of the key when that expression is not empty, an
\* integer if the result equals its truncation to an integer and a float
\* otherwise (0 when the evaluation failed), and no value of the key when
\* the expression is the empty string.
C19_PropExprValue ==
    (fkind = "PropExpr" /\ fstep = "done")
    => LET e == exprs[(frameN % Len(exprs)) + 1]
       IN  /\ vals[1].used = (frameN % Len(exprs)) + 1
           /\ e.size = 0 => outProps = <<>>
           /\ e.size > 0
              => /\ Len(outProps) = 1
                 /\ CASE e.res.kind = "error" -> outProps[1] = PropInt(0)
                      [] e.res.kind = "nan" -> outProps[1].type = "ptFloat"
                      [] e.res.kind = "value" ->
                           IF e.res.h % 2 = 0
                           THEN /\ outProps[1].type = "ptInt"
                                /\ 2 * outProps[1].v = e.res.h
                           ELSE outProps[1] = PropFloat(e.res.h)

\* Frame 4 of a key with three expressions took the second, whose result
\* 2.5 replaced the two values the key had in the source frame.
C19_Witness ==
    /\ fkind = "PropExpr" /\ fstep = "done" /\ frameN = 4 /\ Len(exprs) = 3
    /\ exprs[2].res = Result("value", 5) /\ exprs[1].size = 0
    /\ outProps = <<PropFloat(5)>>

-----------------------------------------------------------------------------
(* Properties of the lowering of SORT and of the binary ops.                *)

\* C21: the JIT's lowering of a SORT N succeeds whatever the tags of its N
\* operands are: a comparator on an integer and a float value converts the
\* integer side, and no std::get of a Value throws.
C21_SortPromotes ==
    engine = "jit" => status # "bad_variant_access"

\* C22: the JIT's result of a binary arithmetic op is float-tagged if an
\* operand is float-tagged, or the op is DIV or MOD, or force_float is
\* active, and integer-tagged otherwise.  The expressions here are compiled
\* with force_float active, so every result of ADD, SUB and MUL is
\* float-tagged.
C22_BinaryOpTag ==
    (arithI > 0 /\ arithOps[arithI].type \in ArithBinary)
    => jitVals[Len(jitVals)].tag = "f"

-----------------------------------------------------------------------------
(* Properties of the frame properties of an Expr.                           *)

\* The positions of the property tokens of an expression, and the (clip,
\* name) a property token names.
PropertyAt(e) == {k \in 1..Len(e) : e[k].kind = "prop"}
NamedPair(tok) == <<ExtractClipId(tok.clip), tok.text>>
FirstAt(e, pair) ==
    CHOOSE k \in PropertyAt(e) :
        /\ NamedPair(e[k]) = pair
        /\ \A m \in PropertyAt(e) : NamedPair(e[m]) = pair => k <= m

\* C23: once compile() has indexed the properties of an expression, its
\* distinct (clip, name) pairs are numbered 0 .. k-1 by first occurrence,
\* the immediate of every property op is LAST + the number of its pair,
\* propAccess[j] is the pair numbered j, the routine's load of a property op
\* reads consts[1 + j], which exprGetFrame fills with the value of
\* propAccess[j], and N reads consts[0]; an expression with a property of a
\* clip index >= numInputs is rejected.
C23_PropertyIndexing ==
    (filter = "Expr" /\ cstep = "compile" /\ phase = "walk")
    => LET e  == ExprOfPlane(given, planeI + 1)
           pa == propAccess
       IN  /\ \A k \in PropertyAt(e) : NamedPair(e[k])[1] < numClips
           /\ {pa[j] : j \in 1..Len(pa)} = {NamedPair(e[k]) : k \in PropertyAt(e)}
           /\ \A j, m \in 1..Len(pa) :
                  j < m => pa[j] # pa[m] /\ FirstAt(e, pa[j]) < FirstAt(e, pa[m])
           /\ \A k \in PropertyAt(e) :
                  /\ ops[k].imm >= LoadConstLast
                  /\ ops[k].imm - LoadConstLast < Len(pa)
                  /\ pa[ops[k].imm - LoadConstLast + 1] = NamedPair(e[k])
                  /\ k <= Len(trace)
                     => /\ trace[k].consts = 1 + (ops[k].imm - LoadConstLast)
                        /\ FrameConsts(0, pa)[trace[k].consts + 1] = NamedPair(e[k])
           /\ \A k \in 1..Len(trace) :
                  e[k] = TokSimple("N") => FrameConsts(0, pa)[trace[k].consts + 1] = <<0>>

-----------------------------------------------------------------------------
(* C24: for every width >= 0 and height >= 0 one call of the compiled       *)
(* routine terminates, having visited the vector positions (y, x), y in     *)
(* [0, height), x a multiple of LANES below width, in row-major order, each *)
(* exactly once; so every pixel of the plane is stored exactly once and no  *)
(* store starts at or after width rounded up to a multiple of LANES.        *)

\* The vector positions of a rHeight x rWidth plane, in row-major order.
VectorsPerRow == (rWidth + LANES - 1) \div LANES
RowMajor ==
    [k \in 1..(rHeight * VectorsPerRow) |->
        <<(k - 1) \div VectorsPerRow, ((k - 1) % VectorsPerRow) * LANES>>]

StoredOnce ==
    \A y \in 0..(rHeight - 1), x \in 0..(rWidth - 1) :
        Cardinality({k \in DOMAIN visits : <<y, x>> \in StoredBy(visits[k])}) = 1

RoutineDone ==
    /\ rpc = "returned"
    /\ visits = RowMajor
    /\ StoredOnce
    /\ \A k \in DOMAIN visits : visits[k][2] < VectorsPerRow * LANES

C24_RoutineVisitsOnce == <>RoutineDone

C24_Witness ==
    /\ rpc = "returned" /\ rWidth = 2 * LANES + 1 /\ rHeight = 2
    /\ Len(visits) = 6

-----------------------------------------------------------------------------
(* C25: for a Mirrored relative load with dx # 0 every lane of every vector *)
(* the inner loop visits, the tail lanes with x + i >= width included,      *)
(* gathers from a column in [0, width); the row of a Mirrored or Clamped    *)
(* load is in [0, height).                                                  *)

C25_MirroredInRange ==
    \A j \in DOMAIN lanes :
        /\ lanes[j].row \in 0..(height - 1)
        /\ (load.bc = "Mirrored" /\ load.x # 0) => lanes[j].col \in 0..(width - 1)

-----------------------------------------------------------------------------
(* C26: in Select's callback sequence every source frame fetched in the     *)
(* third phase for a plane was requested in the second phase for the same   *)
(* frame number, each distinct selected source clip is requested exactly    *)
(* once even when several planes select it, the selection computed in the   *)
(* second phase is the one used in the third, and *frameData is null again  *)
(* after the third phase; the sequence reaches the returned frame.          *)

\* The source frames context c fetched, in plane order.
Fetched(c) == SelectSeq(refs[c], LAMBDA r : r.kind = "src")

SelectPhasesAgree(c) ==
    /\ frameData[c] = NullPtr
    /\ Len(Fetched(c)) = hPlanes
    /\ \A p \in 1..hPlanes :
           /\ Fetched(c)[p].idx = rd[c][p]
           /\ Fetched(c)[p].n = FrameOf(c)
           /\ Cardinality({k \in DOMAIN requests[c] :
                              requests[c][k] = Request("src", rd[c][p], FrameOf(c))}) = 1
    /\ \A k \in DOMAIN requests[c] :
           requests[c][k].kind = "src"
           => \E p \in 1..hPlanes : requests[c][k].idx = rd[c][p]

SelectDone ==
    \A c \in Contexts : hstep[c] = "returned" /\ hdst[c] = "dst" /\ SelectPhasesAgree(c)

C26_SelectPhases == (hfilter = "Select") => <>[]SelectDone

C26_Witness ==
    /\ hfilter = "Select" /\ hPlanes = 3 /\ hSrc = 2
    /\ \A c \in Contexts : hstep[c] = "returned"
    /\ rd[1] = <<1, 0, 1>>
    /\ rd[2] = <<1, 1, 1>>

-----------------------------------------------------------------------------
(* C30: for each of the three filters every frame reference obtained with   *)
(* getFrameFilter is released with freeFrame exactly once before or when    *)
(* the output frame is returned, no reference is used after it was freed,   *)
(* and the callbacks write no field of the shared instance data.            *)

\* No callback of context c is running: it awaits an activation or is done.
BetweenCallbacks(c) == hstep[c] \in {"arInitial", "arAllFramesReady", "returned"}

C30_FramesReleasedOnce ==
    /\ written = {}
    /\ \A c \in DOMAIN refs : \A k \in DOMAIN refs[c] :
           /\ refs[c][k].frees <= 1
           /\ ~refs[c][k].stale
           /\ BetweenCallbacks(c) => refs[c][k].frees = 1

C30_Witness ==
    /\ hfilter \in {"Expr", "PropExpr"} /\ hNodes = 2
    /\ \A c \in Contexts :
           /\ hstep[c] = "returned" /\ hdst[c] = "dst"
           /\ Len(refs[c]) = 2
           /\ \A k \in DOMAIN refs[c] : refs[c][k].frees = 1

-----------------------------------------------------------------------------
(* C27: after any sequence of compile requests exprCache holds an entry for *)
(* a key only if a compilation for that key completed; a failing request    *)
(* leaves the cache as it was, entries are never removed or overwritten,    *)
(* and a cache hit returns neither a default-constructed entry nor a        *)
(* routine for a request that fails to compile.                             *)

\* The compilations that completed, in order.
Completed == SelectSeq(returned, LAMBDA e : e.compiled)

\* The routine of the first completed compilation for key k.
FirstCompiled(k) ==
    LET j == CHOOSE j \in DOMAIN Completed :
                 /\ Key(Completed[j].req) = k
                 /\ \A m \in 1..(j - 1) : Key(Completed[m].req) # k
    IN  Completed[j].routine

C27_CacheOnlySuccess ==
    /\ DOMAIN exprCache = {Key(Completed[j].req) : j \in DOMAIN Completed}
    /\ \A k \in DOMAIN exprCache : exprCache[k] # 0 /\ exprCache[k] = FirstCompiled(k)
    /\ \A j \in DOMAIN returned :
           /\ ~CompileThrows(returned[j].req)
           /\ returned[j].routine # 0
           /\ returned[j].routine = FirstCompiled(Key(returned[j].req))

C27_Witness ==
    /\ pc = <<"idle">> /\ budget = 0
    /\ CompileThrows(req[1])
    /\ Len(returned) = 2 /\ returned[1].compiled /\ ~returned[2].compiled
    /\ DOMAIN exprCache = {Key(returned[1].req)}

-----------------------------------------------------------------------------
(* C28: for every n >= 0, n = 0 and n = 1 included, buildSortNet(n)         *)
(* terminates with a finite list of pairs (i, j), 0 <= i < j < n, so the    *)
(* SORT lowering never indexes the stack outside its top n slots; the list  *)
(* for n <= 1 is empty.                                                     *)

SortNetInRange ==
    /\ \A k \in DOMAIN snNet : 0 <= snNet[k][1] /\ snNet[k][1] < snNet[k][2] /\ snNet[k][2] < snN
    /\ snN <= 1 => snNet = <<>>
    /\ touched \subseteq (snSize - snN)..(snSize - 1)

C28_SortNetTerminates == <>[](snpc = "done" /\ snI = Len(snNet) /\ SortNetInRange)

C28_Witness ==
    /\ snpc = "done" /\ snN = 1 /\ snSize = 2 /\ snNet = <<>> /\ touched = {}

-----------------------------------------------------------------------------
(* C29: on every path through propExprCreate (success, dict evaluation      *)
(* failure, invalid value type, expression validation failure) every host   *)
(* resource is released or handed over exactly once: in_map and out_map are *)
(* freed once, the dict function reference is freed once, the input nodes   *)
(* are freed (error) or owned by the created filter (success).              *)

PropNodesFreed(times) == \A k \in 1..pNodes : pNodeFrees[k] = times

C29_ResourcesReleasedOnce ==
    /\ pstep = "created" =>
           /\ pFrees["in_map"] = 1 /\ pFrees["out_map"] = 1 /\ pFrees["func"] = 1
           /\ pOwned /\ PropNodesFreed(0)
    /\ pstep = "error" =>
           /\ pFrees["in_map"] = 1 /\ pFrees["out_map"] = 1 /\ pFrees["func"] = 1
           /\ ~pOwned /\ PropNodesFreed(1)

=============================================================================
